---- MODULE Spec2Model ----
(***************************************************************************)
(* Model of the fabric-sales chatbot: the stored CSV (fetch_and_append),   *)
(* the SmartAPIHandler aggregation pipeline (smart_api_handler), the       *)
(* deterministic branches of enhanced_chatbot_ask (rag_chatbot) and the    *)
(* follow-up handling of generate_response (livedata_integration).         *)
(***************************************************************************)
EXTENDS Integers, Sequences, FiniteSets, TLC

VARIABLES
    csv,        \* data/database_data.csv: the stored rows, <<>> = no file yet
    data,       \* SmartAPIHandler.data: the DataFrame loaded from the CSV
    loaded,     \* TRUE once SmartAPIHandler.__init__ has read the CSV
    question,   \* the question of the last query
    answer,     \* the answer returned by the last query
    history,    \* chat_history of the console loop: user and model messages
    turn,       \* what generate_response did with the last user input
    session_memory, \* the module-level dict of livedata_integration
    sessions,   \* the conversations of the callers that share the process
    requests,   \* the strategy requests in flight, one per thread
    spelling,   \* the last text given to a spell corrector and what it returned
    cache,      \* CacheManager.sessions of rag_chatbot: session id -> (question, answer) list
    caller,     \* the session id of the last enhanced_chatbot_ask and what its lookup gave
    qa,         \* the DatasetQASystem object: df, index, the VectorIndex objects, lock
    calls       \* the DatasetQASystem.answer calls in flight, one per thread

vars == <<csv, data, loaded, question, answer, history, turn, session_memory, sessions,
          requests, spelling, cache, caller, qa, calls>>

(***************************************************************************)
(* Bounds of the model.                                                    *)
(***************************************************************************)
MaxRows == 3        \* rows the stored CSV may hold
MaxPayload == 2     \* records in one API payload
MaxTurns == 3       \* user inputs of one console session
MaxAsks == 4        \* questions the callers of one process ask in all
MaxCached == 2      \* entries the list of one cache session may hold

(***************************************************************************)
(* Records of the data source: date, weave, quality, composition,          *)
(* quantity, rate, status, agentName, customerName, _id.                   *)
(* A quantity is text: form "plain" is a bare number ("100"), "unit" a     *)
(* number with a unit suffix ("100 yards"), "garbage" a token with no      *)
(* digit ("tyy").                                                          *)
(***************************************************************************)
Date(y, m, d) == [y |-> y, m |-> m, d |-> d]

Qty(n) == [n |-> n, form |-> "plain"]

Row(id, date, weave, qty, rate, status, agent, customer) ==
    [id |-> id, date |-> date, weave |-> weave, quality |-> "premium",
     composition |-> "cotton", quantity |-> qty, rate |-> rate,
     status |-> status, agentName |-> agent, customerName |-> customer]

(***************************************************************************)
(* Generic helpers on sequences and sets.                                  *)
(***************************************************************************)
Range(s) == {s[i] : i \in DOMAIN s}

RECURSIVE SumSeq(_)
SumSeq(s) == IF s = <<>> THEN 0 ELSE Head(s) + SumSeq(Tail(s))

Head_n(s, n) == IF Len(s) <= n THEN s ELSE SubSeq(s, 1, n)

\* every arrangement of the finite set S as a sequence without repetition
Arrangements(S) ==
    {f \in [1..Cardinality(S) -> S] : \A i, j \in 1..Cardinality(S) : f[i] = f[j] => i = j}

(***************************************************************************)
(* str.lower() and str.title() on the names that occur in the model.       *)
(***************************************************************************)
Lower(s) ==
    CASE s = "Plain" -> "plain"
      [] s = "Satin" -> "satin"
      [] s = "Alice" -> "alice"
      [] s = "Ravi" -> "ravi"
      [] s = "Mukilan" -> "mukilan"
      [] s = "Devaraj" -> "devaraj"
      [] s = "Boopalan" -> "boopalan"
      [] s = "Raviraj" -> "raviraj"
      [] s = "Mukil" -> "mukil"
      [] s = "Confirmed" -> "confirmed"
      [] OTHER -> s

Title(s) ==
    CASE s = "plain" -> "Plain"
      [] s = "satin" -> "Satin"
      [] s = "linen" -> "Linen"
      [] s = "premium" -> "Premium"
      [] s = "cotton" -> "Cotton"
      [] s = "alice" -> "Alice"
      [] s = "ravi" -> "Ravi"
      [] s = "mukilan" -> "Mukilan"
      [] s = "devaraj" -> "Devaraj"
      [] OTHER -> s

(***************************************************************************)
(* fetch_and_append.update_csv: concatenate the payload to the stored rows *)
(* and drop the rows that repeat an earlier row in every column.           *)
(***************************************************************************)
RECURSIVE DropDuplicates(_)
DropDuplicates(s) ==
    IF s = <<>> THEN <<>>
    ELSE LET init == DropDuplicates(SubSeq(s, 1, Len(s) - 1))
             last == s[Len(s)]
         IN  IF last \in Range(SubSeq(s, 1, Len(s) - 1)) THEN init ELSE Append(init, last)

CombinedCsv(old, new) ==
    IF old # <<>> THEN DropDuplicates(old \o new) ELSE new

UpdateCsv(Rows) ==
    /\ ~loaded
    /\ \E n \in 0..MaxPayload : \E new_data \in [1..n -> Rows] :
          \* one response of the data source lists an order once
          /\ \A i, j \in 1..n : new_data[i].id = new_data[j].id => i = j
          /\ Len(CombinedCsv(csv, new_data)) <= MaxRows
          /\ csv' = IF new_data = <<>> THEN csv ELSE CombinedCsv(csv, new_data)
    /\ UNCHANGED <<cache, caller, qa, calls,
                   data, loaded, question, answer, history, turn, session_memory, sessions,
                   requests, spelling>>

(***************************************************************************)
(* SmartAPIHandler.__init__: self.data = pd.read_csv(csv_path).            *)
(***************************************************************************)
Load ==
    /\ ~loaded
    /\ csv # <<>>
    /\ data' = csv
    /\ loaded' = TRUE
    /\ UNCHANGED <<cache, caller, qa, calls,
                   csv, question, answer, history, turn, session_memory, sessions,
                   requests, spelling>>

(***************************************************************************)
(* A question is its text as a sequence of tokens in text order: a word, a *)
(* numeric date written D-M-Y (or M-D-Y), a numeric date written Y-M-D, or *)
(* a bare four-digit number.                                               *)
(***************************************************************************)
W(s) == [k |-> "w", s |-> s, a |-> 0, b |-> 0, c |-> 0]
DMY(p1, p2, y) == [k |-> "dmy", s |-> "", a |-> p1, b |-> p2, c |-> y]
YMD(y, m, d) == [k |-> "ymd", s |-> "", a |-> y, b |-> m, c |-> d]
YR(y) == [k |-> "yr", s |-> "", a |-> y, b |-> 0, c |-> 0]

Words(ws) == [i \in DOMAIN ws |-> W(ws[i])]

\* the words of the model's questions that contain a keyword as a proper substring
Substrings ==
    {<<"jun", "june">>, <<"dec", "december">>, <<"dec", "declined">>,
     <<"mar", "summary">>, <<"best", "bestseller">>, <<"top", "stop">>,
     <<"rate", "strategy">>, <<"weave", "weavee">>, <<"weave", "weaveee">>,
     <<"weave", "weaveeee">>,
     <<"diwali", "diwali?">>, <<"ravi", "raviraj">>, <<"mukil", "mukilan">>}

\* Python's `kw in text` for a one-word keyword
Has(q, kw) ==
    \E i \in DOMAIN q : q[i].k = "w" /\ (q[i].s = kw \/ <<kw, q[i].s>> \in Substrings)

\* Python's `phrase in text` for a keyword of several words
HasPhrase(q, ph) ==
    \E i \in 1..(Len(q) - Len(ph) + 1) :
        \A j \in DOMAIN ph : q[i + j - 1].k = "w" /\ q[i + j - 1].s = ph[j]

(***************************************************************************)
(* pd.to_datetime on "Y-M-D": the calendar decides whether it parses.      *)
(***************************************************************************)
IsLeap(y) == (y % 4 = 0 /\ y % 100 # 0) \/ y % 400 = 0

DaysIn(y, m) ==
    CASE m \in {4, 6, 9, 11} -> 30
      [] m = 2 -> IF IsLeap(y) THEN 29 ELSE 28
      [] OTHER -> 31

ValidDate(y, m, d) == m \in 1..12 /\ d \in 1..DaysIn(y, m)

(***************************************************************************)
(* SmartAPIHandler.filter_by_date.  The result is the filtered frame and   *)
(* the scope text: "on <date>", "in <Month>", "in <year>" or "".           *)
(***************************************************************************)
NoLabel == [k |-> "none", y |-> 0, m |-> 0, d |-> 0, name |-> ""]
OnLabel(t) == [k |-> "on", y |-> t.y, m |-> t.m, d |-> t.d, name |-> ""]
MonthLabel(name, num) == [k |-> "month", y |-> 0, m |-> num, d |-> 0, name |-> name]
YearLabel(y) == [k |-> "year", y |-> y, m |-> 0, d |-> 0, name |-> ""]

\* month_keywords, in the order the dictionary is iterated
month_keywords ==
    << <<"january", 1>>, <<"jan", 1>>, <<"february", 2>>, <<"feb", 2>>,
       <<"march", 3>>, <<"mar", 3>>, <<"april", 4>>, <<"apr", 4>>, <<"may", 5>>,
       <<"june", 6>>, <<"jun", 6>>, <<"july", 7>>, <<"jul", 7>>,
       <<"august", 8>>, <<"aug", 8>>, <<"september", 9>>, <<"sep", 9>>,
       <<"october", 10>>, <<"oct", 10>>, <<"november", 11>>, <<"nov", 11>>,
       <<"december", 12>>, <<"dec", 12>> >>

\* re.search: the first token of a kind, 0 when the pattern does not match
FirstToken(q, kinds) ==
    IF \E i \in DOMAIN q : q[i].k \in kinds
    THEN CHOOSE i \in DOMAIN q : q[i].k \in kinds /\ \A j \in 1..(i - 1) : q[j].k \notin kinds
    ELSE 0

\* the date one pattern of date_patterns yields: [ok, y, m, d]
NoTarget == [ok |-> FALSE, y |-> 0, m |-> 0, d |-> 0]
Target(y, m, d) == [ok |-> TRUE, y |-> y, m |-> m, d |-> d]

PatternDate(q, kind) ==
    LET i == FirstToken(q, {kind})
    IN  IF i = 0 THEN NoTarget
        ELSE IF kind = "ymd"
             THEN IF ValidDate(q[i].a, q[i].b, q[i].c)
                  THEN Target(q[i].a, q[i].b, q[i].c) ELSE NoTarget
             \* D-M-Y is tried first, then M-D-Y
             ELSE IF ValidDate(q[i].c, q[i].b, q[i].a) THEN Target(q[i].c, q[i].b, q[i].a)
                  ELSE IF ValidDate(q[i].c, q[i].a, q[i].b) THEN Target(q[i].c, q[i].a, q[i].b)
                  ELSE NoTarget

OnDate(df, t) == SelectSeq(df, LAMBDA r : r.date = Date(t.y, t.m, t.d))

\* a date pattern returns only when its date parses and some row is on it
PatternHit(df, q, kind) ==
    LET t == PatternDate(q, kind) IN t.ok /\ OnDate(df, t) # <<>>

FirstMonthKey(q) ==
    IF \E i \in DOMAIN month_keywords : Has(q, month_keywords[i][1])
    THEN CHOOSE i \in DOMAIN month_keywords :
            /\ Has(q, month_keywords[i][1])
            /\ \A j \in 1..(i - 1) : ~Has(q, month_keywords[j][1])
    ELSE 0

\* \b(20\d{2})\b: a bare year, or the year of a numeric date
YearOf(tok) ==
    CASE tok.k = "yr" -> tok.a
      [] tok.k = "dmy" -> tok.c
      [] tok.k = "ymd" -> tok.a
      [] OTHER -> 0

IsYear20(tok) == tok.k \in {"yr", "dmy", "ymd"} /\ YearOf(tok) \in 2000..2099

FirstYear(q) ==
    IF \E i \in DOMAIN q : IsYear20(q[i])
    THEN YearOf(q[CHOOSE i \in DOMAIN q :
                     IsYear20(q[i]) /\ \A j \in 1..(i - 1) : ~IsYear20(q[j])])
    ELSE 0

filter_by_date(df, q) ==
    IF PatternHit(df, q, "dmy")
    THEN [rows |-> OnDate(df, PatternDate(q, "dmy")), label |-> OnLabel(PatternDate(q, "dmy"))]
    ELSE IF PatternHit(df, q, "ymd")
    THEN [rows |-> OnDate(df, PatternDate(q, "ymd")), label |-> OnLabel(PatternDate(q, "ymd"))]
    ELSE IF FirstMonthKey(q) # 0
    THEN LET key == month_keywords[FirstMonthKey(q)]
         IN  [rows |-> SelectSeq(df, LAMBDA r : r.date.m = key[2]),
              label |-> MonthLabel(key[1], key[2])]
    ELSE IF FirstYear(q) # 0
    THEN [rows |-> SelectSeq(df, LAMBDA r : r.date.y = FirstYear(q)),
          label |-> YearLabel(FirstYear(q))]
    ELSE [rows |-> df, label |-> NoLabel]

(***************************************************************************)
(* SmartAPIHandler.clean_quantity_data: quantity_clean is the first number *)
(* of the text, 0 when the text has none; rate_clean is the numeric rate.  *)
(***************************************************************************)
extract_quantity(value) == IF value.form = "garbage" THEN 0 ELSE value.n

clean_quantity_data(df) ==
    [i \in DOMAIN df |->
        df[i] @@ [quantity_clean |-> extract_quantity(df[i].quantity),
                  rate_clean |-> df[i].rate]]

(***************************************************************************)
(* Answers.  An answer is the content of the text a handler returns: which *)
(* template it is (kind), the scope text, the keys the headline names as   *)
(* the result (winners), whether the text states a tie, the ranking lines, *)
(* the per-group lines of a comparison, the counts and the sums.           *)
(***************************************************************************)
Ans0 ==
    [kind |-> "none", label |-> NoLabel, winners |-> {}, tie |-> FALSE,
     ranking |-> <<>>, groups |-> {}, total_all |-> 0, total_valid |-> 0,
     declined |-> 0, total_quantity |-> 0, total_revenue |-> 0, rate_sum |-> 0,
     details |-> <<>>, more |-> 0]

\* an exception leaving a handler
Raised(what) == [Ans0 EXCEPT !.kind = what]
Exceptions == {"IndexError", "ValueError"}

\* a column of the frame; <category>_normalized is the lower-cased category
Col(r, col) ==
    CASE col = "weave" -> r.weave
      [] col = "quality" -> r.quality
      [] col = "composition" -> r.composition
      [] col = "weave_normalized" -> Lower(r.weave)
      [] col = "quality_normalized" -> Lower(r.quality)
      [] col = "composition_normalized" -> Lower(r.composition)
      [] col = "agentName" -> r.agentName
      [] OTHER -> r.customerName

Normalized(category) ==
    CASE category = "weave" -> "weave_normalized"
      [] category = "quality" -> "quality_normalized"
      [] OTHER -> "composition_normalized"

Quantities(rows) == [i \in DOMAIN rows |-> rows[i].quantity_clean]
Revenues(rows) == [i \in DOMAIN rows |-> rows[i].quantity_clean * rows[i].rate_clean]
Rates(rows) == [i \in DOMAIN rows |-> rows[i].rate_clean]

\* df.groupby(key).agg(quantity_clean sum, _id count) and the revenue sum
GroupBy(rows, col) ==
    {LET g == SelectSeq(rows, LAMBDA r : Col(r, col) = k)
     IN  [key |-> k, qty |-> SumSeq(Quantities(g)), revenue |-> SumSeq(Revenues(g)),
          orders |-> Len(g)] : k \in {Col(rows[i], col) : i \in DOMAIN rows}}

\* sort_values: the orders a sort may leave the groups in; equal metrics in any order
Metric(g, by) == IF by = "quantity_clean" THEN g.qty ELSE g.revenue

SortValues(G, by, ascending) ==
    {s \in Arrangements(G) :
        \A i, j \in DOMAIN s :
            i < j => IF ascending THEN Metric(s[i], by) <= Metric(s[j], by)
                                  ELSE Metric(s[i], by) >= Metric(s[j], by)}

TitleKeys(s) == [i \in DOMAIN s |-> [s[i] EXCEPT !.key = Title(s[i].key)]]

Category(q) ==
    IF Has(q, "weave") THEN "weave"
    ELSE IF Has(q, "quality") THEN "quality"
    ELSE IF Has(q, "composition") THEN "composition"
    ELSE "none"

(***************************************************************************)
(* SmartAPIHandler._handle_most_sold_query                                 *)
(***************************************************************************)
handle_most_sold_query(q, valid_data, label) ==
    LET col == Category(q)
        sales == GroupBy(valid_data, Normalized(col))
    IN  IF col = "none" THEN {[Ans0 EXCEPT !.kind = "specify"]}
        ELSE IF sales = {} THEN {Raised("IndexError")}     \* index[0] of an empty ranking
        ELSE {[Ans0 EXCEPT !.kind = "most_sold", !.label = label,
                           !.winners = {s[1].key}, !.total_quantity = s[1].qty,
                           !.ranking = TitleKeys(Head_n(s, 3))] :
                s \in SortValues(sales, "quantity_clean", FALSE)}

(***************************************************************************)
(* SmartAPIHandler._handle_least_sold_query                                *)
(***************************************************************************)
handle_least_sold_query(q, valid_data, label) ==
    LET col == Category(q)
        sales == GroupBy(valid_data, Normalized(col))
    IN  IF col = "none" THEN {[Ans0 EXCEPT !.kind = "least_sold", !.label = label]}
        ELSE IF sales = {} THEN {Raised("IndexError")}
        ELSE {[Ans0 EXCEPT !.kind = "least_sold", !.label = label,
                           !.winners = {Title(s[1].key)}, !.total_quantity = s[1].qty,
                           !.ranking = TitleKeys(Head_n(s, 5))] :
                s \in SortValues(sales, "quantity_clean", TRUE)}

(***************************************************************************)
(* SmartAPIHandler._handle_comparison_query                                *)
(***************************************************************************)
handle_comparison_query(q, valid_data) ==
    IF Has(q, "agent")
    THEN {[Ans0 EXCEPT !.kind = "comparison",
                       !.groups = GroupBy(valid_data, "agentName")]}
    ELSE IF Category(q) # "none"
    THEN {[Ans0 EXCEPT !.kind = "comparison",
              !.groups = {[g EXCEPT !.key = Title(g.key), !.revenue = 0] :
                            g \in GroupBy(valid_data, Normalized(Category(q)))}]}
    ELSE {[Ans0 EXCEPT !.kind = "comparison"]}

(***************************************************************************)
(* SmartAPIHandler._handle_agent_performance_query and                     *)
(* SmartAPIHandler._handle_customer_performance_query                      *)
(***************************************************************************)
handle_performance_query(col, valid_data, label) ==
    IF valid_data = <<>>
    THEN {[Ans0 EXCEPT !.kind = "no_performance_data", !.label = label]}
    ELSE {[Ans0 EXCEPT !.kind = "performance", !.label = label,
                       !.winners = {s[1].key}, !.total_revenue = s[1].revenue,
                       !.total_valid = s[1].orders, !.total_quantity = s[1].qty,
                       !.ranking = Head_n(s, 3)] :
            s \in SortValues(GroupBy(valid_data, col), "revenue", FALSE)}

handle_agent_performance_query(valid_data, label) ==
    handle_performance_query("agentName", valid_data, label)

handle_customer_performance_query(valid_data, label) ==
    handle_performance_query("customerName", valid_data, label)

IsPerformanceQuestion(q) ==
    \/ Has(q, "best") \/ Has(q, "top") \/ Has(q, "highest")
    \/ Has(q, "performing") \/ Has(q, "leader") \/ Has(q, "winner")

IsCustomerQuestion(q) == Has(q, "customer") \/ Has(q, "client") \/ Has(q, "buyer")

(***************************************************************************)
(* SmartAPIHandler._handle_general_math_query                              *)
(***************************************************************************)
IsSalesCountQuestion(q) ==
    \/ HasPhrase(q, <<"how", "many", "sales">>) \/ HasPhrase(q, <<"sales", "happened">>)
    \/ HasPhrase(q, <<"give", "me", "the", "sales">>)
    \/ HasPhrase(q, <<"number", "of", "sales">>) \/ Has(q, "count")

Declined(rows) == SelectSeq(rows, LAMBDA r : r.status = "Declined")

\* one "agent -> customer: weave, units, revenue" line per row of valid_data
SalesDetails(valid_data) ==
    [i \in DOMAIN valid_data |->
        [agent |-> valid_data[i].agentName, customer |-> valid_data[i].customerName,
         weave |-> valid_data[i].weave, quantity |-> valid_data[i].quantity_clean,
         revenue |-> valid_data[i].quantity_clean * valid_data[i].rate_clean]]

handle_general_math_query(q, valid_data, all_data, label) ==
    LET stats == [Ans0 EXCEPT !.label = label,
                              !.total_valid = Len(valid_data),
                              !.total_all = Len(all_data),
                              !.total_quantity = SumSeq(Quantities(valid_data)),
                              !.total_revenue = SumSeq(Revenues(valid_data)),
                              !.rate_sum = SumSeq(Rates(valid_data)),
                              !.declined = Len(Declined(all_data))]
    IN  IF IsSalesCountQuestion(q)
        THEN IF stats.total_all = 0
             THEN {[Ans0 EXCEPT !.kind = "no_sales", !.label = label]}
             ELSE IF label.k = "on"
             THEN {[stats EXCEPT !.kind = "sales_details",
                                 !.details = Head_n(SalesDetails(valid_data), 5),
                                 !.more = IF Len(valid_data) > 5
                                          THEN Len(valid_data) - 5 ELSE 0]}
             ELSE IF stats.declined > 0
             THEN {[Ans0 EXCEPT !.kind = "sales_count", !.label = label,
                                !.total_all = stats.total_all,
                                !.total_valid = stats.total_valid,
                                !.declined = stats.declined]}
             ELSE {[Ans0 EXCEPT !.kind = "sales_count", !.label = label,
                                !.total_all = stats.total_valid,
                                !.total_valid = stats.total_valid]}
        ELSE IF Has(q, "total") /\ Has(q, "revenue")
        THEN {[Ans0 EXCEPT !.kind = "total_revenue", !.label = label,
                           !.total_revenue = stats.total_revenue,
                           !.total_valid = stats.total_valid, !.declined = stats.declined]}
        ELSE IF Has(q, "total") /\ Has(q, "quantity")
        THEN {[Ans0 EXCEPT !.kind = "total_quantity", !.label = label,
                           !.total_quantity = stats.total_quantity,
                           !.total_valid = stats.total_valid, !.declined = stats.declined]}
        ELSE IF Has(q, "average") /\ Has(q, "rate")
        THEN {[Ans0 EXCEPT !.kind = "average_rate", !.label = label,
                           !.rate_sum = stats.rate_sum, !.total_valid = stats.total_valid]}
        ELSE IF Has(q, "average") /\ Has(q, "quantity")
        THEN {[Ans0 EXCEPT !.kind = "average_quantity", !.label = label,
                           !.total_quantity = stats.total_quantity,
                           !.total_valid = stats.total_valid]}
        ELSE IF IsPerformanceQuestion(q)
        THEN IF IsCustomerQuestion(q)
             THEN handle_customer_performance_query(valid_data, label)
             ELSE handle_agent_performance_query(valid_data, label)
        ELSE IF stats.total_all = 0
        THEN {[Ans0 EXCEPT !.kind = "no_data", !.label = label]}
        ELSE {[stats EXCEPT !.kind = "summary", !.rate_sum = 0]}

(***************************************************************************)
(* SmartAPIHandler.call_math_api: date filter, cleaning, exclusion of the  *)
(* declined orders, then the handler the keywords select.  An exception of *)
(* a handler becomes the text "Analysis failed: ...".                      *)
(***************************************************************************)
\* the exclusion written with the wrong letter case: it excludes nothing
ValidDataLowercase(analysis_data) ==
    SelectSeq(analysis_data, LAMBDA r : r.status # "declined")

ValidData(analysis_data) == SelectSeq(analysis_data, LAMBDA r : r.status # "Declined")

IsMostSoldQuestion(q) ==
    \/ HasPhrase(q, <<"most", "sold">>)
    \/ (Has(q, "highest") /\ Category(q) # "none")
    \/ HasPhrase(q, <<"best", "selling">>)

IsLeastSoldQuestion(q) ==
    HasPhrase(q, <<"least", "sold">>) \/ (Has(q, "lowest") /\ Category(q) # "none")

MathHandler(q, valid_data, analysis_data, label) ==
    IF IsPerformanceQuestion(q)
    THEN IF IsCustomerQuestion(q)
         THEN handle_customer_performance_query(valid_data, label)
         ELSE handle_agent_performance_query(valid_data, label)
    ELSE IF IsMostSoldQuestion(q) THEN handle_most_sold_query(q, valid_data, label)
    ELSE IF IsLeastSoldQuestion(q) THEN handle_least_sold_query(q, valid_data, label)
    ELSE IF Has(q, "compare") THEN handle_comparison_query(q, valid_data)
    ELSE handle_general_math_query(q, valid_data, analysis_data, label)

call_math_api(q, data_subset) ==
    LET filtered == filter_by_date(data_subset, q)
        analysis_data == clean_quantity_data(filtered.rows)
        valid_data == ValidData(analysis_data)
    IN  {IF a.kind \in Exceptions THEN [Ans0 EXCEPT !.kind = "analysis_failed"] ELSE a :
            a \in MathHandler(q, valid_data, analysis_data, filtered.label)}

CallMathApi(Questions) ==
    /\ loaded
    /\ \E q \in Questions : \E a \in call_math_api(q, data) :
          /\ question' = q
          /\ answer' = a
    /\ UNCHANGED <<cache, caller, qa, calls,
                   csv, data, loaded, history, turn, session_memory, sessions, requests, spelling>>

(***************************************************************************)
(* The state after construction: no CSV, nothing loaded, nothing asked.    *)
(***************************************************************************)
\* what predict_future_sales returns: the error result or the figures
NoPrediction ==
    [error |-> "none", figures |-> FALSE, confidence |-> "none", months_ahead |-> 0,
     historical_months |-> 0, target |-> [y |-> 0, m |-> 0]]

\* the reply of the live API to one GET of /chat/getFormData
NoResponse == [kind |-> "none", formData |-> <<>>]

NoTurn ==
    [input |-> <<>>, last |-> <<>>, effective |-> <<>>, outcome |-> "none",
     merge |-> "none", retry |-> FALSE, context |-> <<>>, api |-> NoResponse,
     attempt_count |-> 0, strategy_angle |-> "none", prediction |-> NoPrediction]

\* session_memory = {}: no key, no entry.  entries maps a session key to
\* the dict object stored under it, dicts holds the dict objects ever made
NoMemory == [entries |-> <<>>, dicts |-> <<>>]

\* the callers that hold a conversation with generate_response in one process
Sessions == 1..2

\* the threads that may run a strategy request
Threads == {"t1", "t2"}

NoRequest ==
    [pc |-> "idle", session_key |-> <<>>, ref |-> 0, count |-> 0, attempt_count |-> 0]

\* CacheManager.__init__: self.sessions = {}
NoCache == <<>>

\* Python's None
None == [kind |-> "None"]

NoCaller == [session_id |-> "none", cached_answer |-> None]

\* no DatasetQASystem constructed yet: no DataFrame, no VectorIndex object
NoQA == [df |-> None, index |-> 0, indexes |-> <<>>, lock |-> "free"]

NoCall ==
    [pc |-> "idle", new_df |-> None, docs |-> None, df |-> None, searched |-> 0,
     found |-> None, rebuilding |-> FALSE]

Init ==
    /\ csv = <<>>
    /\ data = <<>>
    /\ loaded = FALSE
    /\ question = <<>>
    /\ answer = Ans0
    /\ history = <<>>
    /\ turn = NoTurn
    /\ session_memory = NoMemory
    /\ sessions = [s \in Sessions |-> [history |-> <<>>, served |-> <<>>]]
    /\ requests = [t \in Threads |-> NoRequest]
    /\ spelling = [corrector |-> "none", text |-> <<>>, result |-> <<>>]
    /\ cache = NoCache
    /\ caller = NoCaller
    /\ qa = NoQA
    /\ calls = [t \in Threads |-> NoCall]

(***************************************************************************)
(* Spec: rankings and sums of call_math_api.  The orders the data source   *)
(* may deliver differ in weave, quantity, rate, status, agent, customer    *)
(* and month.                                                              *)
(***************************************************************************)
RankRows ==
    {Row("o1", Date(2025, 5, 28), "plain", Qty(1), 2, "Confirmed", "Mukilan", "Alice"),
     Row("o2", Date(2025, 5, 28), "satin", Qty(1), 2, "Confirmed", "Devaraj", "Ravi"),
     Row("o3", Date(2025, 5, 28), "plain", Qty(2), 1, "Processed", "Devaraj", "Alice"),
     Row("o4", Date(2025, 6, 3), "satin", Qty(2), 3, "Pending", "Mukilan", "Ravi"),
     Row("o5", Date(2025, 5, 28), "plain", Qty(1), 2, "Declined", "Mukilan", "Ravi"),
     Row("o6", Date(2025, 6, 3), "satin", Qty(2), 2, "Declined", "Devaraj", "Alice")}

RankQuestions ==
    {Words(<<"most", "sold", "weave">>),
     Words(<<"most", "sold", "weave", "in", "may">>),
     Words(<<"most", "sold", "quality">>),
     Words(<<"most", "sold">>),
     Words(<<"least", "sold", "weave">>),
     Words(<<"lowest", "composition", "in", "june">>),
     Words(<<"best", "agent">>),
     Words(<<"top", "customer", "in", "june">>),
     Words(<<"compare", "agent">>),
     Words(<<"compare", "weave">>),
     Words(<<"total", "revenue">>),
     Words(<<"total", "quantity", "in", "may">>),
     Words(<<"average", "rate">>),
     Words(<<"average", "quantity">>),
     Words(<<"how", "many", "sales">>),
     Words(<<"sales", "report">>)}

Next == UpdateCsv(RankRows) \/ Load \/ CallMathApi(RankQuestions)

Spec == Init /\ [][Next]_vars

(***************************************************************************)
(* What the claims are stated with: the rows of the loaded data in the     *)
(* temporal scope of the last question, and sums over sets of row indices. *)
(***************************************************************************)
Scope == filter_by_date(data, question).rows

RECURSIVE SumOver(_, _)
SumOver(f, S) ==
    IF S = {} THEN 0
    ELSE LET x == CHOOSE x \in S : TRUE IN f[x] + SumOver(f, S \ {x})

QtyAt(rows) == [i \in DOMAIN rows |-> IF rows[i].quantity.form = "garbage" THEN 0
                                      ELSE rows[i].quantity.n]
RevAt(rows) == [i \in DOMAIN rows |-> QtyAt(rows)[i] * rows[i].rate]
RateAt(rows) == [i \in DOMAIN rows |-> rows[i].rate]

NotDeclined(rows) == {i \in DOMAIN rows : rows[i].status # "Declined"}

\* the value a row is grouped under: a category without its letter case, or
\* the name of the agent or the customer as written
KeyAt(rows, by) ==
    [i \in DOMAIN rows |->
        CASE by = "weave" -> Lower(rows[i].weave)
          [] by = "quality" -> Lower(rows[i].quality)
          [] by = "composition" -> Lower(rows[i].composition)
          [] by = "agentName" -> rows[i].agentName
          [] OTHER -> rows[i].customerName]

\* the per-key sums over the rows that are not declined
ExpectedGroups(rows, by) ==
    {LET I == {i \in NotDeclined(rows) : KeyAt(rows, by)[i] = k}
     IN  [key |-> k, qty |-> SumOver(QtyAt(rows), I), revenue |-> SumOver(RevAt(rows), I),
          orders |-> Cardinality(I)] : k \in {KeyAt(rows, by)[i] : i \in NotDeclined(rows)}}

PerformanceColumn(q) == IF IsCustomerQuestion(q) THEN "customerName" ELSE "agentName"

(***************************************************************************)
(* C1: when two or more category keys share the maximum summed quantity    *)
(* among the non-Declined rows, the most-sold answer reports a tie among   *)
(* those keys and names no single winner.                                  *)
(***************************************************************************)
TopKeys(rows, col) ==
    LET G == ExpectedGroups(rows, col)
    IN  {g.key : g \in {g \in G : \A h \in G : g.qty >= h.qty}}

C1_TieReported ==
    answer.kind = "most_sold" =>
        LET top == TopKeys(Scope, Category(question))
        IN  Cardinality(top) >= 2 => answer.tie /\ answer.winners = top

(***************************************************************************)
(* C2: in every answer of the performance, most-sold, least-sold,          *)
(* comparison and general-statistic handlers, each quantity sum, revenue   *)
(* sum, ranking metric and valid-order count is the one computed over the  *)
(* rows of the scope whose status is not Declined.                         *)
(***************************************************************************)
C2_RankingKinds == {"most_sold", "least_sold", "performance"}
C2_QuantityKinds == {"total_quantity", "average_quantity", "summary", "sales_details"}
C2_RevenueKinds == {"total_revenue", "summary", "sales_details"}
C2_CountKinds ==
    {"total_revenue", "total_quantity", "average_rate", "average_quantity", "summary",
     "sales_details", "sales_count"}

C2_DeclinedExcluded ==
    LET valid == NotDeclined(Scope)
        cat == Category(question)
        byCategory == {[g EXCEPT !.key = Title(g.key)] :
                          g \in ExpectedGroups(Scope, cat)}
        byPerson == ExpectedGroups(Scope, PerformanceColumn(question))
        byAgent == ExpectedGroups(Scope, "agentName")
    IN  /\ answer.kind \in {"most_sold", "least_sold"} => Range(answer.ranking) \subseteq byCategory
        /\ answer.kind = "performance" => Range(answer.ranking) \subseteq byPerson
        /\ answer.kind = "comparison" =>
              \/ answer.groups = byAgent
              \/ answer.groups = {[g EXCEPT !.revenue = 0] : g \in byCategory}
              \/ answer.groups = {}
        /\ answer.kind \in C2_QuantityKinds =>
              answer.total_quantity = SumOver(QtyAt(Scope), valid)
        /\ answer.kind \in C2_RevenueKinds =>
              answer.total_revenue = SumOver(RevAt(Scope), valid)
        /\ answer.kind = "average_rate" => answer.rate_sum = SumOver(RateAt(Scope), valid)
        /\ answer.kind \in C2_CountKinds => answer.total_valid = Cardinality(valid)

\* a sum was answered over a scope that holds a declined order of positive
\* quantity and rate next to an order that counts
C2_Witness ==
    /\ answer.kind \in C2_RankingKinds \cup C2_QuantityKinds \cup C2_RevenueKinds
    /\ \E i \in DOMAIN Scope : Scope[i].status = "Declined" /\ RevAt(Scope)[i] > 0
    /\ NotDeclined(Scope) # {}

(***************************************************************************)
(* C3: a row with status Pending contributes nothing to a total-revenue    *)
(* figure: the figure is the one answered when the Pending rows are taken  *)
(* out of the data.                                                        *)
(***************************************************************************)
WithoutPending(rows) == SelectSeq(rows, LAMBDA r : r.status # "Pending")

C3_PendingExcludedFromTotalRevenue ==
    answer.kind = "total_revenue" =>
        \E a \in call_math_api(question, WithoutPending(data)) :
            a.total_revenue = answer.total_revenue

(***************************************************************************)
(* SpecDate: the temporal scope of call_math_api.  The orders differ in    *)
(* day, month, year and status; the questions carry numeric dates in both  *)
(* notations, month names and bare years, alone and together.              *)
(***************************************************************************)
DateRows ==
    {Row("d1", Date(2025, 5, 28), "plain", Qty(1), 2, "Confirmed", "Mukilan", "Alice"),
     Row("d2", Date(2025, 5, 28), "satin", Qty(2), 1, "Declined", "Devaraj", "Ravi"),
     Row("d3", Date(2025, 5, 28), "satin", Qty(1), 1, "Processed", "Devaraj", "Alice"),
     Row("d4", Date(2025, 5, 30), "plain", Qty(2), 2, "Confirmed", "Mukilan", "Ravi"),
     Row("d5", Date(2024, 5, 28), "plain", Qty(1), 1, "Confirmed", "Devaraj", "Ravi"),
     Row("d6", Date(2025, 6, 3), "satin", Qty(1), 2, "Confirmed", "Mukilan", "Alice")}

DateQuestions ==
    {Words(<<"how", "many", "sales", "on">>) \o <<DMY(28, 5, 2025)>>,
     Words(<<"how", "many", "sales", "on">>) \o <<DMY(5, 28, 2025)>>,
     Words(<<"how", "many", "sales", "on">>) \o <<YMD(2025, 5, 30)>>,
     Words(<<"how", "many", "sales", "on">>) \o <<DMY(29, 5, 2025)>>,
     Words(<<"how", "many", "sales", "on">>) \o <<DMY(31, 2, 2025)>>,
     Words(<<"sales", "happened", "in", "june", "on">>) \o <<DMY(28, 5, 2025)>>,
     Words(<<"how", "many", "sales", "in", "may">>) \o <<YR(2025)>>,
     Words(<<"how", "many", "sales", "in", "may">>),
     Words(<<"how", "many", "sales", "in", "july">>),
     Words(<<"how", "many", "sales", "in">>) \o <<YR(2024)>>,
     Words(<<"how", "many", "sales">>),
     Words(<<"most", "sold", "weave", "in", "july">>),
     Words(<<"least", "sold", "weave", "in">>) \o <<YR(2023)>>,
     Words(<<"best", "agent", "in", "july">>),
     Words(<<"top", "customer", "in", "june">>),
     Words(<<"sales", "report", "in", "july">>)}

NextDate == UpdateCsv(DateRows) \/ Load \/ CallMathApi(DateQuestions)

SpecDate == Init /\ [][NextDate]_vars

(***************************************************************************)
(* C5: in the sales-count answer for a specific date, the total stated in  *)
(* the opening line equals the number of detail rows returned with it: the *)
(* rows listed plus those the "... and N more sales" line covers.          *)
(***************************************************************************)
C5_OpeningCountMatchesDetails ==
    answer.kind = "sales_details" => answer.total_all = Len(answer.details) + answer.more

(***************************************************************************)
(* C6: the count answered to "how many sales in <month> <year>" is the     *)
(* number of rows of the data whose date is in that month of that year.    *)
(***************************************************************************)
InMonthOfYear(rows, m, y) == {i \in DOMAIN rows : rows[i].date.m = m /\ rows[i].date.y = y}

IsMonthYearQuestion(q) ==
    /\ IsSalesCountQuestion(q)
    /\ FirstToken(q, {"dmy", "ymd"}) = 0
    /\ FirstMonthKey(q) # 0
    /\ FirstYear(q) # 0

C6_MonthYearCount ==
    (IsMonthYearQuestion(question) /\ answer.kind \in {"sales_count", "no_sales"}) =>
        answer.total_all =
            Cardinality(InMonthOfYear(data, month_keywords[FirstMonthKey(question)][2],
                                      FirstYear(question)))

(***************************************************************************)
(* C7: whenever the question contains a valid explicit date, the rows      *)
(* filter_by_date returns are exactly the rows on that date, whatever      *)
(* month names or years the text also holds and whether or not any row     *)
(* matches.                                                                *)
(***************************************************************************)
ExplicitDate(q) ==
    IF PatternDate(q, "dmy").ok THEN PatternDate(q, "dmy") ELSE PatternDate(q, "ymd")

C7_ExplicitDateWins ==
    (loaded /\ ExplicitDate(question).ok) =>
        /\ Scope = OnDate(data, ExplicitDate(question))
        /\ answer.kind \in {"sales_details", "sales_count", "no_sales"} =>
              answer.label = OnLabel(ExplicitDate(question))

(***************************************************************************)
(* C8: when the temporal filter leaves no rows, the sales-count, most-sold,*)
(* least-sold, performance and summary handlers answer that there are no   *)
(* matching records for the scope: never "Analysis failed", never totals.  *)
(***************************************************************************)
C8_NoRecordsKinds == {"no_sales", "no_data", "no_performance_data"}

C8_EmptyScopeSaysNoRecords ==
    (question # <<>> /\ filter_by_date(data, question).label.k # "none" /\ Scope = <<>>) =>
        answer.kind \in C8_NoRecordsKinds

(***************************************************************************)
(* rag_chatbot.enhanced_chatbot_ask, the revenue lookups.  The regular     *)
(* expressions are modelled on the tokens of the question; the questions   *)
(* of the model hold no apostrophe, so the possessive alternative          *)
(* "<name>'s revenue" never matches, and "for", "customer", "agent" and    *)
(* "revenue" occur as whole words only.                                    *)
(***************************************************************************)
OID(id) == [k |-> "oid", s |-> id, a |-> 0, b |-> 0, c |-> 0]

\* [A-Za-z\s]+ takes words; [\w\s]+ also takes a bare number
IsLetters(tok) == tok.k = "w"
IsWordChars(tok) == tok.k \in {"w", "yr"}

\* "for <role> X" followed by white space or the end: X is the next token
Alt1At(q, role, i) ==
    /\ i + 2 <= Len(q)
    /\ q[i] = W("for") /\ q[i + 1] = W(role)
    /\ IsWordChars(q[i + 2])

\* "for X <role>": the positions of <role> that can close the lazy group
Alt2Ends(q, role, i) ==
    IF q[i] # W("for") THEN {}
    ELSE {j \in (i + 2)..Len(q) :
             q[j] = W(role) /\ \A n \in (i + 1)..(j - 1) : IsWordChars(q[n])}

\* "revenue for X" with X running to the end of the question
Alt4At(q, i) ==
    /\ i + 2 <= Len(q)
    /\ q[i] = W("revenue") /\ q[i + 1] = W("for")
    /\ \A n \in (i + 2)..Len(q) : IsLetters(q[n])

Min(S) == CHOOSE x \in S : \A y \in S : x <= y

\* re.search: the leftmost match, the alternatives tried in order; the
\* result is the captured group, <<>> when the pattern does not match
entity_match(q, role) ==
    LET starts == {i \in DOMAIN q :
                      Alt1At(q, role, i) \/ Alt2Ends(q, role, i) # {} \/ Alt4At(q, i)}
    IN  IF starts = {} THEN <<>>
        ELSE LET i == Min(starts)
             IN  IF Alt1At(q, role, i) THEN <<q[i + 2]>>
                 ELSE IF Alt2Ends(q, role, i) # {}
                      THEN SubSeq(q, i + 1, Min(Alt2Ends(q, role, i)) - 1)
                      ELSE SubSeq(q, i + 2, Len(q))

\* name.lower() == text, text in name.lower() or name.lower() in text
NameMatches(name, phrase) ==
    \/ Len(phrase) = 1 /\ (phrase[1].s = Lower(name) \/ <<phrase[1].s, Lower(name)>> \in Substrings)
    \/ \E i \in DOMAIN phrase :
          phrase[i].s = Lower(name) \/ <<Lower(name), phrase[i].s>> \in Substrings

\* the first name of df[col].unique() that matches, "" when none does
matched_name(df, col, phrase) ==
    IF phrase = <<>> \/ ~\E i \in DOMAIN df : NameMatches(Col(df[i], col), phrase)
    THEN ""
    ELSE Col(df[Min({i \in DOMAIN df : NameMatches(Col(df[i], col), phrase)})], col)

\* pd.to_numeric(errors='coerce'): text that is no bare number becomes NaN,
\* which sum() skips and which is not > 0
to_numeric(value) == IF value.form = "plain" THEN value.n ELSE 0

ConfirmedOrProcessed(df) ==
    SelectSeq(df, LAMBDA r : r.status \in {"Confirmed", "Processed"})

RevenueColumn(df) == [i \in DOMAIN df |-> to_numeric(df[i].quantity) * df[i].rate]

\* the date of "on D", "for date D", "revenue on D", "revenue for D"
DateMatchAt(q, i) ==
    /\ q[i].k = "ymd"
    /\ i > 1
    /\ \/ q[i - 1] = W("on")
       \/ q[i - 1] = W("for") /\ i > 2 /\ q[i - 2] = W("revenue")
       \/ q[i - 1] = W("date") /\ i > 2 /\ q[i - 2] = W("for")

date_match(q) ==
    IF \E i \in DOMAIN q : DateMatchAt(q, i)
    THEN Min({i \in DOMAIN q : DateMatchAt(q, i)}) ELSE 0

\* \b(19|20)\d{2}\b
IsYear1920(tok) == tok.k \in {"yr", "dmy", "ymd"} /\ YearOf(tok) \in 1900..2099

year_match(q) ==
    IF \E i \in DOMAIN q : IsYear1920(q[i])
    THEN YearOf(q[Min({i \in DOMAIN q : IsYear1920(q[i])})]) ELSE 0

month_names ==
    <<"january", "february", "march", "april", "may", "june", "july", "august",
      "september", "october", "november", "december">>

IsMonthName(tok) == tok.k = "w" /\ \E n \in DOMAIN month_names : month_names[n] = tok.s

\* the number of the first full month name of the question, 0 when none
month_name_match(q) ==
    IF \E i \in DOMAIN q : IsMonthName(q[i])
    THEN LET i == Min({i \in DOMAIN q : IsMonthName(q[i])})
         IN  CHOOSE n \in DOMAIN month_names : month_names[n] = q[i].s
    ELSE 0

order_id_match(q) ==
    IF \E i \in DOMAIN q : q[i].k = "oid"
    THEN q[Min({i \in DOMAIN q : q[i].k = "oid"})].s ELSE ""

calculate_revenue_by_year(df, year) ==
    SumSeq(RevenueColumn(SelectSeq(ConfirmedOrProcessed(df), LAMBDA r : r.date.y = year)))

calculate_revenue_by_month(df, year, month) ==
    SumSeq(RevenueColumn(SelectSeq(ConfirmedOrProcessed(df),
                                   LAMBDA r : r.date.y = year /\ r.date.m = month)))

\* the revenue of the first stored row of the order
calculate_revenue_by_order_id(df, order_id) ==
    LET filtered_df == SelectSeq(ConfirmedOrProcessed(df), LAMBDA r : r.id = order_id)
    IN  IF filtered_df = <<>> THEN 0 ELSE RevenueColumn(filtered_df)[1]

\* the branches of enhanced_chatbot_ask that answer before the revenue lookups
IsBestPerformingQuestion(q) ==
    /\ HasPhrase(q, <<"best", "performing">>)
    /\ \E feature \in {"agent", "weave", "quality", "composition"} : Has(q, feature)

HasMostOrder(q) ==
    \/ HasPhrase(q, <<"most", "order">>) \/ HasPhrase(q, <<"most", "orders">>)
    \/ HasPhrase(q, <<"most", "number", "of", "order">>)
    \/ HasPhrase(q, <<"most", "number", "of", "orders">>)

IsAnalyticsQuestion(q) ==
    \/ \E col \in {"customer", "agent", "weave", "quality", "composition"} :
          Has(q, col) /\ HasMostOrder(q)
    \/ /\ Has(q, "agent")
       /\ \E st \in {"confirmed", "declined", "pending"} : HasPhrase(q, <<st, "orders">>)
       /\ \E agent \in {"mukilan", "devaraj", "boopalan"} : Has(q, agent)
    \/ /\ Has(q, "customer")
       /\ \E how \in {"highest", "most"}, what \in {"quantity", "revenue"} :
             HasPhrase(q, <<how, what>>)

NameLabel(k, name) == [k |-> k, y |-> 0, m |-> 0, d |-> 0, name |-> name]
MonthYearLabel(y, m) == [k |-> "month_year", y |-> y, m |-> m, d |-> 0, name |-> ""]

RevenueAnswer(kind, label, revenue) ==
    [Ans0 EXCEPT !.kind = kind, !.label = label, !.total_revenue = revenue]

\* the lookup by a named customer or agent; kind "none" when the question
\* names nobody of the column
name_revenue(q, df, role, col) ==
    LET name == matched_name(df, col, entity_match(q, role))
    IN  IF name = "" THEN Ans0
        ELSE RevenueAnswer(role \o "_revenue", NameLabel(role, name),
                 SumSeq(RevenueColumn(ConfirmedOrProcessed(
                     SelectSeq(df, LAMBDA r : Lower(Col(r, col)) = Lower(name))))))

revenue_query(q, df) ==
    IF name_revenue(q, df, "customer", "customerName").kind # "none"
    THEN name_revenue(q, df, "customer", "customerName")
    ELSE IF name_revenue(q, df, "agent", "agentName").kind # "none"
    THEN name_revenue(q, df, "agent", "agentName")
    ELSE IF date_match(q) # 0
    THEN LET t == q[date_match(q)]
         IN  RevenueAnswer("date_revenue", OnLabel(Target(t.a, t.b, t.c)),
                 SumSeq(RevenueColumn(ConfirmedOrProcessed(
                     SelectSeq(df, LAMBDA r : r.date = Date(t.a, t.b, t.c))))))
    ELSE IF year_match(q) # 0
    THEN IF month_name_match(q) # 0
         THEN RevenueAnswer("month_revenue", MonthYearLabel(year_match(q), month_name_match(q)),
                  calculate_revenue_by_month(df, year_match(q), month_name_match(q)))
         ELSE RevenueAnswer("year_revenue", YearLabel(year_match(q)),
                  calculate_revenue_by_year(df, year_match(q)))
    ELSE IF order_id_match(q) # ""
    THEN LET revenue == calculate_revenue_by_order_id(df, order_id_match(q))
         IN  IF revenue > 0
             THEN RevenueAnswer("order_revenue", NameLabel("order", order_id_match(q)), revenue)
             ELSE RevenueAnswer("no_order_revenue", NameLabel("order", order_id_match(q)), 0)
    ELSE RevenueAnswer("all_revenue", NoLabel, SumSeq(RevenueColumn(ConfirmedOrProcessed(df))))

\* df_valid = df[df['status'] != 'Declined']
NotDeclinedRows(df) == SelectSeq(df, LAMBDA r : r.status # "Declined")

\* value_counts().idxmax() and groupby(...).sum().idxmax(): the label of the
\* largest value, ValueError when there is no row to take it from
idxmax(df_valid, kind) ==
    IF df_valid = <<>> THEN Raised("ValueError") ELSE [Ans0 EXCEPT !.kind = kind]

\* best_performance_analysis: get_best takes idxmax of df_valid by column
best_performance_analysis(df) == idxmax(NotDeclinedRows(df), "best_performing")

IsAgentStatusQuestion(q) ==
    /\ Has(q, "agent")
    /\ \E st \in {"confirmed", "declined", "pending"} : HasPhrase(q, <<st, "orders">>)
    /\ \E agent \in {"mukilan", "devaraj", "boopalan"} : Has(q, agent)

\* the pandas analytics in the order of the code: the customer with the most
\* orders, the orders of a named agent by status (a count of rows), then the
\* other rankings
analytics_query(q, df) ==
    IF Has(q, "customer") /\ HasMostOrder(q) THEN idxmax(NotDeclinedRows(df), "analytics")
    ELSE IF IsAgentStatusQuestion(q) THEN [Ans0 EXCEPT !.kind = "analytics"]
    ELSE idxmax(NotDeclinedRows(df), "analytics")

\* fallback_analysis: the numerical analysis or the plain retrieval answer
fallback_analysis(q) == [Ans0 EXCEPT !.kind = "fallback_analysis"]

IsMostSoldCategory(q) ==
    \E category \in {"quality", "composition", "weave"} :
        HasPhrase(q, <<"most", "sold", category>>)

\* the Smart API routing inside the try block: an exception of a ranking is
\* caught and the question is answered by fallback_analysis
smart_api_routing(q, df) ==
    LET a == IF IsMostSoldCategory(q) THEN idxmax(NotDeclinedRows(df), "other")
             ELSE [Ans0 EXCEPT !.kind = "other"]
        category == IF HasPhrase(q, <<"most", "sold", "quality">>) THEN "quality"
                    ELSE IF HasPhrase(q, <<"most", "sold", "composition">>)
                    THEN "composition"
                    ELSE "weave"
    IN  IF a.kind \in Exceptions THEN fallback_analysis(q)
        ELSE IF IsMostSoldCategory(q)
        THEN [a EXCEPT !.label = NameLabel("most_sold", category)]
        ELSE a

enhanced_chatbot_ask(q, df) ==
    IF IsBestPerformingQuestion(q) THEN best_performance_analysis(df)
    ELSE IF IsAnalyticsQuestion(q) THEN analytics_query(q, df)
    ELSE IF Has(q, "revenue") THEN revenue_query(q, df)
    ELSE smart_api_routing(q, df)

(***************************************************************************)
(* CacheManager: update_context appends (normalized question, answer) to   *)
(* the list of the session, get_context returns the answer of the latest   *)
(* entry of the session whose question is the normalized question, or None.*)
(***************************************************************************)
\* question.strip().lower()
normalize(question_text) ==
    [i \in DOMAIN question_text |->
        IF question_text[i].k = "w"
        THEN [question_text[i] EXCEPT !.s = Lower(@)]
        ELSE question_text[i]]

update_context(self_sessions, user_question, model_answer, session_id) ==
    LET norm_q == normalize(user_question)
        old == IF session_id \in DOMAIN self_sessions THEN self_sessions[session_id]
               ELSE <<>>
    IN  [s \in DOMAIN self_sessions \cup {session_id} |->
            IF s = session_id THEN Append(old, [q |-> norm_q, a |-> model_answer])
            ELSE self_sessions[s]]

\* a lookup that forgets to compare the questions
get_context_AnyQuestion(self_sessions, user_question, session_id) ==
    IF session_id \notin DOMAIN self_sessions THEN None
    ELSE self_sessions[session_id][Len(self_sessions[session_id])].a

get_context(self_sessions, user_question, session_id) ==
    IF session_id \notin DOMAIN self_sessions THEN None
    ELSE LET entries == self_sessions[session_id]
             hits == {i \in DOMAIN entries : entries[i].q = normalize(user_question)}
         IN  IF hits = {} THEN None
             ELSE entries[CHOOSE i \in hits : \A j \in hits : j <= i].a

\* the session ids the callers pass; "default" is the default of the parameter
SessionIds == {"default", "A"}

\* the session whose list enhanced_chatbot_ask appends to: update_context is
\* called without session_id at every call site of the try block, and
\* fallback_analysis, which stores under its own session_id parameter, is
\* called without it
StoredUnder(session_id) == "default"

Cached(session_id) ==
    IF session_id \in DOMAIN cache THEN Len(cache[session_id]) ELSE 0

\* the branches of enhanced_chatbot_ask that return before the cache lookup
AnsweredBeforeCache(q) ==
    IsBestPerformingQuestion(q) \/ IsAnalyticsQuestion(q) \/ Has(q, "revenue")

EnhancedChatbotAsk(Questions) ==
    /\ loaded
    /\ \E q \in Questions : \E session_id \in SessionIds :
          LET cached_answer == IF AnsweredBeforeCache(q) THEN None
                               ELSE get_context(cache, q, session_id)
              rag_answer == enhanced_chatbot_ask(q, data)
          IN  /\ question' = q
              /\ caller' = [session_id |-> session_id, cached_answer |-> cached_answer]
              /\ IF cached_answer # None
                 THEN answer' = cached_answer /\ cache' = cache
                 ELSE /\ answer' = rag_answer
                      /\ IF AnsweredBeforeCache(q)
                         THEN cache' = cache
                         ELSE /\ Cached(StoredUnder(session_id)) < MaxCached
                              /\ cache' = update_context(cache, q, rag_answer,
                                                         StoredUnder(session_id))
    /\ UNCHANGED <<qa, calls, csv, data, loaded, history, turn, session_memory, sessions,
                   requests, spelling>>

(***************************************************************************)
(* SpecAsk: the rankings of enhanced_chatbot_ask on datasets whose orders  *)
(* may all be declined.                                                    *)
(***************************************************************************)
AskRows ==
    {Row("o1", Date(2025, 5, 28), "plain", Qty(1), 2, "Declined", "Mukilan", "Alice"),
     Row("o2", Date(2025, 6, 3), "satin", Qty(2), 1, "Declined", "Devaraj", "Ravi"),
     Row("o3", Date(2025, 5, 28), "plain", Qty(2), 2, "Confirmed", "Devaraj", "Alice"),
     Row("o4", Date(2025, 6, 3), "satin", Qty(1), 3, "Pending", "Mukilan", "Ravi")}

AskQuestions ==
    {Words(<<"which", "customer", "placed", "the", "most", "orders">>),
     Words(<<"which", "agent", "handled", "the", "most", "orders">>),
     Words(<<"best", "performing", "weave">>),
     Words(<<"agent", "mukilan", "declined", "orders">>),
     Words(<<"customer", "with", "highest", "revenue">>),
     Words(<<"most", "sold", "weave">>),
     Words(<<"total", "revenue">>),
     Words(<<"list", "the", "customers">>)}

NextAsk == UpdateCsv(AskRows) \/ Load \/ EnhancedChatbotAsk(AskQuestions)

SpecAsk == Init /\ [][NextAsk]_vars

(***************************************************************************)
(* SpecRevenue: the revenue lookups.  Order o1 is delivered by the data    *)
(* source as Confirmed and, on a later fetch, as Processed.                *)
(***************************************************************************)
RevenueRows ==
    {Row("o1", Date(2025, 5, 28), "plain", Qty(1), 2, "Confirmed", "Mukilan", "Alice"),
     Row("o1", Date(2025, 5, 28), "plain", Qty(1), 2, "Processed", "Mukilan", "Alice"),
     Row("o2", Date(2025, 5, 28), "satin", Qty(2), 1, "Pending", "Devaraj", "Alice"),
     Row("o3", Date(2025, 6, 3), "satin", Qty(2), 2, "Processed", "Devaraj", "Ravi"),
     Row("o4", Date(2024, 5, 28), "plain", Qty(1), 1, "Confirmed", "Mukilan", "Ravi"),
     Row("o5", Date(2025, 6, 3), "plain", Qty(1), 3, "Declined", "Mukilan", "Alice")}

RevenueQuestions ==
    {Words(<<"revenue", "for", "customer", "alice">>),
     Words(<<"revenue", "for", "customer", "ravi", "in">>) \o <<YR(2025)>>,
     Words(<<"show", "revenue", "for", "alice", "customer", "in">>) \o <<YR(2025)>>,
     Words(<<"revenue", "for", "agent", "mukilan">>),
     Words(<<"revenue", "for", "devaraj">>),
     Words(<<"revenue", "for", "customer", "bob">>),
     Words(<<"revenue", "on">>) \o <<YMD(2025, 5, 28)>>,
     Words(<<"revenue", "for">>) \o <<YMD(2025, 6, 3)>>,
     Words(<<"revenue", "for", "may">>) \o <<YR(2025)>>,
     Words(<<"revenue", "in", "june">>) \o <<YR(2024)>>,
     Words(<<"revenue", "in">>) \o <<YR(2025)>>,
     Words(<<"revenue", "for", "order">>) \o <<OID("o1")>>,
     Words(<<"revenue", "for", "order">>) \o <<OID("o2")>>,
     Words(<<"revenue", "for", "order">>) \o <<OID("o3")>>,
     Words(<<"total", "revenue">>),
     Words(<<"customer", "with", "highest", "revenue">>),
     Words(<<"best", "performing", "agent">>),
     Words(<<"top", "customer">>)}

NextRevenue == UpdateCsv(RevenueRows) \/ Load \/ EnhancedChatbotAsk(RevenueQuestions)

SpecRevenue == Init /\ [][NextRevenue]_vars

(***************************************************************************)
(* C4: the revenue a customer, agent, date, year, month or order-id lookup *)
(* returns is the sum of quantity x rate over exactly the rows of the data *)
(* that match the entity the answer names and whose status is Confirmed or *)
(* Processed.                                                              *)
(***************************************************************************)
(***************************************************************************)
(* spell_corrector.  fuzz.ratio of rapidfuzz is the normalized Indel        *)
(* similarity 100 * 2 * LCS(s1, s2) / (len(s1) + len(s2)); it is kept as   *)
(* the fraction num / den.  The vocabulary is read from the CSV when the   *)
(* module is imported: here the CSV holds the weaves plain and satin, the  *)
(* quality premium, the composition cotton, the status Confirmed, the      *)
(* agent Mukilan and the customer Alice.                                   *)
(***************************************************************************)
\* the letters of the words of the vocabulary and of the model's texts
Letters(w) ==
    CASE w = "agent" -> <<"a", "g", "e", "n", "t">>
      [] w = "agentname" -> <<"a", "g", "e", "n", "t", "n", "a", "m", "e">>
      [] w = "alice" -> <<"a", "l", "i", "c", "e">>
      [] w = "composition" -> <<"c", "o", "m", "p", "o", "s", "i", "t", "i", "o", "n">>
      [] w = "compoz" -> <<"c", "o", "m", "p", "o", "z">>
      [] w = "confirmed" -> <<"c", "o", "n", "f", "i", "r", "m", "e", "d">>
      [] w = "cotton" -> <<"c", "o", "t", "t", "o", "n">>
      [] w = "customer" -> <<"c", "u", "s", "t", "o", "m", "e", "r">>
      [] w = "customername" -> <<"c", "u", "s", "t", "o", "m", "e", "r", "n", "a", "m", "e">>
      [] w = "date" -> <<"d", "a", "t", "e">>
      [] w = "hello" -> <<"h", "e", "l", "l", "o">>
      [] w = "id" -> <<"i", "d">>
      [] w = "linen" -> <<"l", "i", "n", "e", "n">>
      [] w = "mukilan" -> <<"m", "u", "k", "i", "l", "a", "n">>
      [] w = "order" -> <<"o", "r", "d", "e", "r">>
      [] w = "plain" -> <<"p", "l", "a", "i", "n">>
      [] w = "plian" -> <<"p", "l", "i", "a", "n">>
      [] w = "premium" -> <<"p", "r", "e", "m", "i", "u", "m">>
      [] w = "quality" -> <<"q", "u", "a", "l", "i", "t", "y">>
      [] w = "quantity" -> <<"q", "u", "a", "n", "t", "i", "t", "y">>
      [] w = "rate" -> <<"r", "a", "t", "e">>
      [] w = "satin" -> <<"s", "a", "t", "i", "n">>
      [] w = "satxx" -> <<"s", "a", "t", "x", "x">>
      [] w = "sold" -> <<"s", "o", "l", "d">>
      [] w = "spandex" -> <<"s", "p", "a", "n", "d", "e", "x">>
      [] w = "stain" -> <<"s", "t", "a", "i", "n">>
      [] w = "stand" -> <<"s", "t", "a", "n", "d">>
      [] w = "status" -> <<"s", "t", "a", "t", "u", "s">>
      [] w = "type" -> <<"t", "y", "p", "e">>
      [] w = "weave" -> <<"w", "e", "a", "v", "e">>
      [] w = "weev" -> <<"w", "e", "e", "v">>
      [] OTHER -> <<>>

\* the longest-common-subsequence table, row by row: cur is the part of
\* the row of letter a[i] filled so far, prev the row of a[i - 1]
RECURSIVE LcsRows(_, _, _, _, _)
LcsRows(a, b, i, prev, cur) ==
    IF i > Len(a) THEN prev[Len(b) + 1]
    ELSE IF Len(cur) = Len(b) + 1 THEN LcsRows(a, b, i + 1, cur, <<0>>)
    ELSE LET j == Len(cur)
         IN  LcsRows(a, b, i, prev,
                     Append(cur, IF a[i] = b[j] THEN prev[j] + 1
                                 ELSE IF prev[j + 1] >= cur[j] THEN prev[j + 1]
                                 ELSE cur[j]))

Lcs(a, b) == LcsRows(a, b, 1, [j \in 1..(Len(b) + 1) |-> 0], <<0>>)

fuzz_ratio(s1, s2) ==
    [num |-> 200 * Lcs(Letters(s1), Letters(s2)), den |-> Len(Letters(s1)) + Len(Letters(s2))]

AtLeast(score, points) == score.num >= points * score.den
Better(s1, s2) == s1.num * s2.den > s2.num * s1.den

threshold == 60

\* the module-level keywords: the words of the values of the CSV
keywords == {"plain", "satin", "premium", "cotton", "confirmed", "mukilan", "alice"}

\* SpellCorrector.keywords: the column names, the words of the values and
\* the built-in list
SpellCorrector_keywords ==
    {"date", "weave", "quality", "composition", "quantity", "rate", "status", "agentname",
     "customername", "id"}
        \cup keywords
        \cup {"weave", "composition", "quality", "agent", "customer", "quantity", "order",
               "confirmed", "sold", "type", "plain", "cotton", "premium", "stand", "linen",
               "spandex", "satin"}

\* the words of the texts given to the correctors
SpellWords == {"weev", "satxx", "compoz", "hello", "plian", "sold", "stain"}

\* the scores of these words against the vocabulary, computed once
ratios == [word \in SpellWords, c \in SpellCorrector_keywords |-> fuzz_ratio(word, c)]

\* process.extractOne(word, choices, scorer=fuzz.ratio): a choice of the
\* highest score; the choices are list(set(...)), so which of several
\* best choices comes first differs from run to run
extractOne(word, choices) ==
    {[match |-> c, score |-> ratios[word, c]] :
        c \in {c \in choices : \A o \in choices : ~Better(ratios[word, o], ratios[word, c])}}

\* what correct_spelling may put in the place of one word
corrected(word) ==
    {IF AtLeast(best.score, threshold) THEN best.match ELSE word :
        best \in extractOne(word, keywords)}

\* the texts correct_spelling may return
correct_spelling(user_input) ==
    {result \in [DOMAIN user_input -> UNION {corrected(user_input[i]) : i \in DOMAIN user_input}] :
        \A i \in DOMAIN user_input : result[i] \in corrected(user_input[i])}

\* str(TextBlob(word).correct()): the word itself, or the word of
\* TextBlob's English dictionary it takes the word for
Respelled(word) == "respelled " \o word
TextBlob_correct(word) == {word, Respelled(word)}

SpellCorrector_corrected(word) ==
    IF word \in SpellCorrector_keywords THEN {word}
    ELSE UNION {IF AtLeast(best.score, threshold) THEN {best.match}
                ELSE TextBlob_correct(word) :
                    best \in extractOne(word, SpellCorrector_keywords)}

SpellCorrector_correct(text) ==
    {result \in [DOMAIN text -> UNION {SpellCorrector_corrected(text[i]) : i \in DOMAIN text}] :
        \A i \in DOMAIN text : result[i] \in SpellCorrector_corrected(text[i])}

CorrectSpelling(Texts) ==
    /\ \E user_input \in Texts : \E result \in correct_spelling(user_input) :
          spelling' = [corrector |-> "correct_spelling", text |-> user_input,
                       result |-> result]
    /\ UNCHANGED <<cache, caller, qa, calls,
                   csv, data, loaded, question, answer, history, turn, session_memory,
                   sessions, requests>>

Correct(Texts) ==
    /\ \E text \in Texts : \E result \in SpellCorrector_correct(text) :
          spelling' = [corrector |-> "SpellCorrector", text |-> text, result |-> result]
    /\ UNCHANGED <<cache, caller, qa, calls,
                   csv, data, loaded, question, answer, history, turn, session_memory,
                   sessions, requests>>

(***************************************************************************)
(* SpecSpell: texts of one or two words given to either corrector.         *)
(***************************************************************************)
MaxWords == 2

SpellTexts == UNION {[1..n -> SpellWords] : n \in 1..MaxWords}

NextSpell == CorrectSpelling(SpellTexts) \/ Correct(SpellTexts)

SpecSpell == Init /\ [][NextSpell]_vars

(***************************************************************************)
(* C16: both correctors resolve a word to its best vocabulary match if and *)
(* only if the similarity score is at least the threshold of 60 (a score   *)
(* of exactly 60 is accepted), and leave a rejected word as it is rather   *)
(* than put a guessed word in its place.                                   *)
(***************************************************************************)
Vocabulary(corrector) ==
    IF corrector = "SpellCorrector" THEN SpellCorrector_keywords ELSE keywords

C16_ThresholdDecides ==
    \A i \in DOMAIN spelling.text :
        LET word == spelling.text[i]
            best == extractOne(word, Vocabulary(spelling.corrector))
        IN  IF \E b \in best : AtLeast(b.score, threshold)
            THEN spelling.result[i] \in {b.match : b \in best}
            ELSE spelling.result[i] = word

(***************************************************************************)
(* SpecNames: the customer and agent lookups on names of which one         *)
(* contains another; the stored rows come in every order.                  *)
(***************************************************************************)
NameRows ==
    {Row("n1", Date(2025, 5, 28), "plain", Qty(1), 2, "Confirmed", "Mukilan", "Raviraj"),
     Row("n2", Date(2025, 5, 28), "satin", Qty(2), 1, "Confirmed", "Mukil", "Ravi"),
     Row("n3", Date(2025, 6, 3), "plain", Qty(1), 3, "Processed", "Devaraj", "Alice")}

NameQuestions ==
    {Words(<<"revenue", "for", "ravi">>),
     Words(<<"revenue", "for", "raviraj">>),
     Words(<<"revenue", "for", "customer", "ravi", "in">>) \o <<YR(2025)>>,
     Words(<<"revenue", "for", "alice">>),
     Words(<<"revenue", "for", "mukil">>),
     Words(<<"revenue", "for", "agent", "mukilan", "in">>) \o <<YR(2025)>>}

NextNames == UpdateCsv(NameRows) \/ Load \/ EnhancedChatbotAsk(NameQuestions)

SpecNames == Init /\ [][NextNames]_vars

(***************************************************************************)
(* C15: in the customer and agent revenue lookups, if some name of the     *)
(* dataset equals the extracted name case-insensitively, that name is the  *)
(* one resolved, in whatever order the dataset lists the names and also    *)
(* when another name contains the extracted name or is contained in it.    *)
(***************************************************************************)
NameColumn(role) == IF role = "customer" THEN "customerName" ELSE "agentName"

C15_ExactNameFirst ==
    \A role \in {"customer", "agent"} :
        answer.kind = role \o "_revenue" =>
            LET phrase == entity_match(question, role)
            IN  (/\ Len(phrase) = 1
                 /\ \E i \in DOMAIN data :
                       Lower(Col(data[i], NameColumn(role))) = phrase[1].s) =>
                    Lower(answer.label.name) = phrase[1].s

C4_LookupKinds ==
    {"customer_revenue", "agent_revenue", "date_revenue", "month_revenue",
     "year_revenue", "order_revenue", "no_order_revenue"}

MatchesEntity(r, label) ==
    CASE label.k = "customer" -> Lower(r.customerName) = Lower(label.name)
      [] label.k = "agent" -> Lower(r.agentName) = Lower(label.name)
      [] label.k = "on" -> r.date = Date(label.y, label.m, label.d)
      [] label.k = "month_year" -> r.date.y = label.y /\ r.date.m = label.m
      [] label.k = "year" -> r.date.y = label.y
      [] label.k = "order" -> r.id = label.name
      [] OTHER -> FALSE

C4_EntityRevenue ==
    answer.kind \in C4_LookupKinds =>
        answer.total_revenue =
            SumOver(RevAt(data),
                    {i \in DOMAIN data : /\ MatchesEntity(data[i], answer.label)
                                         /\ data[i].status \in {"Confirmed", "Processed"}})

(***************************************************************************)
(* livedata_integration: the tests generate_response makes on the text of  *)
(* a question.  `x in text` for a phrase of several words holds when some  *)
(* word ends with the first word of the phrase, the next words are the     *)
(* middle words and the one after starts with the last word.               *)
(***************************************************************************)
\* the words of the model's questions that properly end or start with a word
\* of a phrase
Suffixes == {<<"in", "satin">>, <<"in", "plain">>}
Prefixes == {<<"sale", "sales">>}

EndsWith(tok, x) == tok.k = "w" /\ (tok.s = x \/ <<x, tok.s>> \in Suffixes)
StartsWith(tok, x) == tok.k = "w" /\ (tok.s = x \/ <<x, tok.s>> \in Prefixes)

InText(q, ph) ==
    \E i \in 1..(Len(q) - Len(ph) + 1) :
        /\ EndsWith(q[i], ph[1])
        /\ StartsWith(q[i + Len(ph) - 1], ph[Len(ph)])
        /\ \A j \in 2..(Len(ph) - 1) : q[i + j - 1] = W(ph[j])

\* `"x " in text` on the stripped text: a word that ends with x and is not the last
BeforeSpace(q, x) == \E i \in 1..(Len(q) - 1) : EndsWith(q[i], x)

\* a keyword of one word or of several
HasKeyword(q, kw) == IF Len(kw) = 1 THEN Has(q, kw[1]) ELSE InText(q, kw)

festival_keywords ==
    {<<"festival">>, <<"diwali">>, <<"holi">>, <<"christmas">>, <<"eid">>, <<"pongal">>,
     <<"celebration">>, <<"valentine">>, <<"mother", "day">>, <<"father", "day">>,
     <<"raksha", "bandhan">>, <<"karva", "chauth">>, <<"janmashtami">>,
     <<"ganesh", "chaturthi">>, <<"dussehra">>, <<"independence", "day">>,
     <<"republic", "day">>, <<"good", "friday">>, <<"navratri">>, <<"deepavali">>,
     <<"xmas">>, <<"new", "year">>}

is_festival_question(q) == \E kw \in festival_keywords : HasKeyword(q, kw)

strategy_patterns ==
    {<<"business", "strategy", "for">>, <<"business", "strategies", "for">>,
     <<"strategy", "for">>, <<"strategies", "for">>, <<"business", "plan", "for">>,
     <<"marketing", "strategy", "for">>, <<"sales", "strategy", "for">>}

is_business_strategy_question(q) == \E ph \in strategy_patterns : InText(q, ph)

\* the keys of festival_mappings
festival_mappings ==
    {<<"diwali">>, <<"deepavali">>, <<"deepawali">>, <<"holi">>, <<"christmas">>,
     <<"xmas">>, <<"eid">>, <<"pongal">>, <<"valentine">>, <<"mother", "day">>,
     <<"mothers", "day">>, <<"father", "day">>, <<"fathers", "day">>,
     <<"raksha", "bandhan">>, <<"rakshabandhan">>, <<"karva", "chauth">>,
     <<"karwa", "chauth">>, <<"janmashtami">>, <<"ganesh", "chaturthi">>,
     <<"ganapati">>, <<"dussehra">>, <<"dasara">>, <<"vijayadashami">>,
     <<"independence", "day">>, <<"republic", "day">>, <<"good", "friday">>,
     <<"monsoon", "sale">>, <<"festive", "season">>, <<"winter", "collection">>,
     <<"year", "end">>}

\* extract_festival_name / extract_multiple_festivals find a festival
extract_festival_name(q) == \E key \in festival_mappings : HasKeyword(q, key)

(***************************************************************************)
(* fetch_sales_data_from_api.  A record of the live API carries its date   *)
(* as text: form "iso" is YYYY-MM-DD, "other" any other text, "empty" the  *)
(* empty string.  The reply to the GET is a timeout, a refused connection, *)
(* a 4xx/5xx status, a body that is not JSON, a JSON object whose status   *)
(* is not 200, one without formData, one whose formData is null, or a      *)
(* JSON object with status 200 and the list formData.                      *)
(***************************************************************************)
IsoDate(y, m) == [y |-> y, m |-> m, form |-> "iso"]
OtherDate == [y |-> 0, m |-> 0, form |-> "other"]
EmptyDate == [y |-> 0, m |-> 0, form |-> "empty"]

LiveRecord(date, quantity, rate, agent) ==
    [date |-> date, quantity |-> quantity, rate |-> rate, weave |-> "plain",
     quality |-> "premium", composition |-> "cotton", status |-> "Confirmed",
     agentName |-> agent, customerName |-> "Alice"]

\* a quantity that is not a number
Unparsed == [n |-> 0, form |-> "garbage"]

\* a date written as ISO-8601 with time and zone: 2025-12-03T10:30:00.000Z
IsoDateTime(y, m) == [y |-> y, m |-> m, form |-> "datetime"]

DeclinedRecord(date, quantity, rate, agent) ==
    [LiveRecord(date, quantity, rate, agent) EXCEPT !.status = "Declined"]

Failed(kind) == [kind |-> kind, formData |-> <<>>]
Delivered(formData) == [kind |-> "ok", formData |-> formData]

FailureKinds ==
    {"timeout", "connection_error", "http_error", "not_json", "bad_status", "no_formData",
     "null_formData"}

\* the exception the body of the try block raises, "none" when it returns
FetchFault(response) ==
    CASE response.kind = "timeout" -> "Timeout"
      [] response.kind = "connection_error" -> "ConnectionError"
      [] response.kind = "http_error" -> "HTTPError"
      [] response.kind = "not_json" -> "JSONDecodeError"
      [] response.kind \in {"bad_status", "no_formData"} -> "ValueError"
      [] response.kind = "null_formData" -> "TypeError"
      [] OTHER -> "none"

RequestException == {"Timeout", "ConnectionError", "HTTPError"}

\* an exception that leaves the function it was raised in
Propagated(fault) == <<[raised |-> fault]>>

IsPropagated(result) == result # <<>> /\ "raised" \in DOMAIN result[1]

\* the function with the handler of RequestException alone
fetch_sales_data_from_api_RequestException(response) ==
    IF FetchFault(response) \in RequestException THEN <<>>
    ELSE IF FetchFault(response) # "none" THEN Propagated(FetchFault(response))
    ELSE response.formData

fetch_sales_data_from_api(response) ==
    IF FetchFault(response) \in RequestException THEN <<>>
    ELSE IF FetchFault(response) # "none" THEN <<>>
    ELSE response.formData

\* the values is_sales_related_question collects from the fetched records
api_keywords(sales_data) ==
    UNION {{Lower(sales_data[i].agentName), Lower(sales_data[i].customerName),
            Lower(sales_data[i].weave), Lower(sales_data[i].quality),
            Lower(sales_data[i].composition), Lower(sales_data[i].status)} :
              i \in DOMAIN sales_data}

\* the pairs <<word, value>> of the model's questions and records for which
\* difflib.get_close_matches(word, api_keywords, n=1, cutoff=0.75) finds the
\* value although the two differ: there is none
CloseToApiKeyword == {}

sales_keywords ==
    {<<"record">>, <<"dress">>, <<"sales">>, <<"trend">>, <<"predict">>, <<"forecast">>,
     <<"quantity">>, <<"rate">>, <<"revenue">>, <<"agent">>, <<"customer">>, <<"weave">>,
     <<"linen">>, <<"satin">>, <<"denim">>, <<"crepe">>, <<"twill">>, <<"premium">>,
     <<"standard">>, <<"economy">>, <<"cotton">>, <<"polyester">>, <<"spandex">>,
     <<"order">>, <<"status">>, <<"confirmed">>, <<"pending">>, <<"cancelled">>,
     <<"growth">>, <<"performance">>, <<"top">>, <<"best">>, <<"most">>, <<"sold">>,
     <<"item">>, <<"product">>, <<"month">>, <<"year">>, <<"quarter">>, <<"period">>,
     <<"analysis">>, <<"data">>, <<"id">>, <<"date">>, <<"festival">>, <<"diwali">>,
     <<"holi">>, <<"christmas">>, <<"eid">>, <<"pongal">>, <<"valentine">>,
     <<"mother", "day">>, <<"father", "day">>, <<"raksha", "bandhan">>,
     <<"karva", "chauth">>, <<"janmashtami">>, <<"ganesh", "chaturthi">>,
     <<"dussehra">>, <<"independence", "day">>, <<"republic", "day">>, <<"recommend">>,
     <<"suggest">>, <<"stock">>, <<"fabric", "for">>, <<"monsoon", "sale">>,
     <<"festive", "season">>, <<"quality">>, <<"kolity">>, <<"qualety">>, <<"qaulity">>,
     <<"qulaity">>, <<"composition">>, <<"komposition">>, <<"kumposison">>,
     <<"composision">>, <<"priya">>, <<"sowmiya">>, <<"mukilan">>, <<"karthik">>,
     <<"alice">>, <<"smith">>, <<"ravi">>, <<"qilyze">>, <<"jhon">>}

\* the words of the model's questions for which
\* difflib.get_close_matches(word, sales_keywords, n=1, cutoff=0.6) finds a keyword
CloseToSalesKeyword ==
    {"agent", "diwali", "fabric", "most", "predict", "quantity", "ravi", "revenue",
     "sales", "salse", "sold", "strategy", "there", "weave", "weavee", "weaveee",
     "weaveeee", "weev"}

\* api: the reply of the live API to the fetch the function makes itself; a
\* word of the question is, or is close to, a value of its records
is_sales_related_question(q, api) ==
    \/ \E i \in DOMAIN q : q[i].k = "w" /\ q[i].s \in CloseToSalesKeyword
    \/ \E kw \in sales_keywords : HasKeyword(q, kw)
    \/ \E i \in DOMAIN q :
          /\ q[i].k = "w"
          /\ ~IsPropagated(fetch_sales_data_from_api(api))
          /\ \E value \in api_keywords(fetch_sales_data_from_api(api)) :
                q[i].s = value \/ <<q[i].s, value>> \in CloseToApiKeyword

\* str.replace of every entry of corrections, in order, on the words an input
\* of the model or its correction holds: "weav" -> "weave" also rewrites "weave"
corrected_word(w) ==
    CASE w = "weev" -> "weave"
      [] w = "weave" -> "weavee"
      [] w = "weavee" -> "weaveee"
      [] w = "weaveee" -> "weaveeee"
      [] w = "salse" -> "sales"
      [] w = "agnet" -> "agent"
      [] w = "kolity" -> "quality"
      [] OTHER -> w

\* corrected_text = text.lower(), then the replacements
correct_misspellings(text) ==
    [i \in DOMAIN text |->
        IF text[i].k = "w" THEN W(corrected_word(Lower(text[i].s))) ELSE text[i]]

CorrectMisspellings(Texts) ==
    /\ \E text \in Texts :
          spelling' = [corrector |-> "correct_misspellings", text |-> text,
                       result |-> correct_misspellings(text)]
    /\ UNCHANGED <<cache, caller, qa, calls,
                   csv, data, loaded, question, answer, history, turn, session_memory,
                   sessions, requests>>

(***************************************************************************)
(* SpecMisspell: texts of one or two words given to correct_misspellings.  *)
(***************************************************************************)
MisspellWords ==
    {"weev", "weave", "sales", "quality", "salse", "hello", "Ravi", "agnet", "agent",
     "kolity"}

MisspellTexts == UNION {{Words(ws) : ws \in [1..n -> MisspellWords]} : n \in 1..MaxWords}

NextMisspell == CorrectMisspellings(MisspellTexts)

SpecMisspell == Init /\ [][NextMisspell]_vars

prediction_keywords ==
    {<<"predict">>, <<"forecast">>, <<"future">>, <<"will", "be">>, <<"next", "year">>,
     <<"next", "month">>, <<"upcoming">>, <<"expected">>, <<"projection">>}

is_prediction_question(q) ==
    \/ \E kw \in prediction_keywords : HasKeyword(q, kw)
    \/ \E i \in DOMAIN q : q[i].k \in {"yr", "dmy", "ymd"} /\ YearOf(q[i]) \in {2026, 2027, 2028}

(***************************************************************************)
(* The repeat counter of the business-strategy answers.  The session key   *)
(* is the MD5 digest of "<user_id>_<normalized question>"; the model keeps *)
(* the digested text itself.  re.sub(r'[^\w\s]', '', ...) drops the        *)
(* punctuation of a word.                                                  *)
(***************************************************************************)
Unpunctuated(w) ==
    CASE w = "diwali?" -> "diwali"
      [] OTHER -> w

Normalized_question(q) ==
    [i \in DOMAIN q |->
        IF q[i].k = "w" THEN W(Unpunctuated(q[i].s)) ELSE q[i]]

generate_session_key(q, user_id) == <<user_id, Normalized_question(q)>>

angles ==
    <<"booking_trends", "agent_performance", "profit_margins", "timing_stocking",
      "customer_behavior", "promotional_tactics">>

get_strategy_angle(attempt_count) == angles[(attempt_count % Len(angles)) + 1]

\* generate_business_strategy_response run without interruption on the
\* memory: the memory it leaves, the attempt count and the angle it uses
generate_business_strategy_response(q, memory) ==
    LET session_key == generate_session_key(q, "admin")
        created ==
            IF session_key \notin DOMAIN memory.entries
            THEN [entries |-> (session_key :> (Len(memory.dicts) + 1)) @@ memory.entries,
                  dicts |-> Append(memory.dicts, [count |-> 0])]
            ELSE memory
        counted ==
            [created EXCEPT !.dicts[created.entries[session_key]].count = @ + 1]
        attempt_count == counted.dicts[counted.entries[session_key]].count
    IN  [memory |-> counted, attempt_count |-> attempt_count,
         strategy_angle |-> get_strategy_angle(attempt_count - 1)]

(***************************************************************************)
(* The prediction of future sales.  monthly_data maps a month <<y, m>> to  *)
(* its totals; a record is aggregated when its date parses as YYYY-MM-DD   *)
(* and float() accepts its quantity and its rate.                          *)
(***************************************************************************)
\* the aggregation that keeps a record whatever its quantity
AggregatedByDate(record) == record.date.form = "iso"

Aggregated(record) == record.date.form = "iso" /\ record.quantity.form = "plain"

MonthKey(record) == <<record.date.y, record.date.m>>

analyze_historical_trends(sales_data) ==
    LET rows == SelectSeq(sales_data, Aggregated)
        RowsOf(key) == SelectSeq(rows, LAMBDA r : MonthKey(r) = key)
    IN  [key \in {MonthKey(rows[i]) : i \in DOMAIN rows} |->
            [total_quantity |-> SumSeq([i \in DOMAIN RowsOf(key) |-> RowsOf(key)[i].quantity.n]),
             total_revenue |->
                 SumSeq([i \in DOMAIN RowsOf(key) |->
                            RowsOf(key)[i].quantity.n * RowsOf(key)[i].rate]),
             order_count |-> Len(RowsOf(key))]]

\* "YYYY-MM" keys sort as the months do
MonthBefore(k1, k2) == k1[1] < k2[1] \/ (k1[1] = k2[1] /\ k1[2] < k2[2])

\* the month that precedes key among the months of monthly_data
PreviousMonth(monthly_data, key) ==
    CHOOSE p \in DOMAIN monthly_data :
        /\ MonthBefore(p, key)
        /\ \A o \in DOMAIN monthly_data : MonthBefore(o, key) => o = p \/ MonthBefore(o, p)

\* a growth rate ((curr - prev) / prev) * 100 is kept as the fraction num / den
calculate_growth_rates(monthly_data) ==
    [key \in {k \in DOMAIN monthly_data : \E p \in DOMAIN monthly_data : MonthBefore(p, k)} |->
        LET prev_qty == monthly_data[PreviousMonth(monthly_data, key)].total_quantity
            curr_qty == monthly_data[key].total_quantity
        IN  IF prev_qty > 0 THEN [num |-> (curr_qty - prev_qty) * 100, den |-> prev_qty]
            ELSE [num |-> 0, den |-> 1]]

\* 1 + avg_growth_rate / 100 is 0.0: quantities are not negative, so the
\* average of the rates is -100 only when every rate is -100
ZeroGrowthBase(growth_rates) ==
    /\ DOMAIN growth_rates # {}
    /\ \A k \in DOMAIN growth_rates : growth_rates[k].num = (0 - 100) * growth_rates[k].den

LatestMonth(monthly_data) ==
    CHOOSE k \in DOMAIN monthly_data : \A o \in DOMAIN monthly_data : o = k \/ MonthBefore(o, k)

Confidence(months_ahead) ==
    IF months_ahead <= 6 THEN "High" ELSE IF months_ahead <= 12 THEN "Medium" ELSE "Low"

\* target: the year and month of target_date_str
predict_future_sales(target, sales_data) ==
    LET monthly_data == analyze_historical_trends(sales_data)
        growth_rates == calculate_growth_rates(monthly_data)
        latest_month == LatestMonth(monthly_data)
        months_ahead == (target.y - latest_month[1]) * 12 + (target.m - latest_month[2])
    IN  IF DOMAIN monthly_data = {}
        THEN [NoPrediction EXCEPT !.error = "Insufficient historical data for prediction",
                                  !.confidence = "Low", !.target = target]
        \* 0.0 ** months_ahead with months_ahead < 0 raises ZeroDivisionError,
        \* which the function's own except clause turns into the error result
        ELSE IF ZeroGrowthBase(growth_rates) /\ months_ahead < 0
        THEN [NoPrediction EXCEPT !.error = "Prediction error: ZeroDivisionError",
                                  !.confidence = "Low", !.target = target]
        ELSE [NoPrediction EXCEPT !.figures = TRUE,
                                  !.confidence = Confidence(months_ahead),
                                  !.months_ahead = months_ahead,
                                  !.historical_months = Cardinality(DOMAIN monthly_data),
                                  !.target = target]

\* (202[6-9]|20[3-9]\d) anywhere in the text
IsPredictionYear(tok) == tok.k \in {"yr", "dmy", "ymd"} /\ YearOf(tok) \in 2026..2099

extract_prediction_date(q) ==
    [y |-> IF \E i \in DOMAIN q : IsPredictionYear(q[i])
           THEN YearOf(q[CHOOSE i \in DOMAIN q :
                            IsPredictionYear(q[i])
                                /\ \A j \in 1..(i - 1) : ~IsPredictionYear(q[j])])
           ELSE 2026,
     m |-> IF FirstMonthKey(q) # 0 THEN month_keywords[FirstMonthKey(q)][2] ELSE 6]

(***************************************************************************)
(* generate_response: the helpers of the smart context analysis.           *)
(***************************************************************************)
followup_phrases ==
    {<<"only", "in">>, <<"what", "about">>, <<"how", "about">>, <<"and", "for">>,
     <<"show", "me">>, <<"can", "you">>, <<"do", "it">>, <<"yes">>, <<"change", "it">>,
     <<"ok">>, <<"go", "ahead">>, <<"then">>, <<"next">>, <<"now">>, <<"also">>,
     <<"give", "me">>, <<"tell", "me">>, <<"show">>, <<"list">>, <<"details">>,
     <<"breakdown">>, <<"again">>, <<"repeat">>}

is_followup_question(q) ==
    \/ InText(q, <<"only", "in">>) \/ BeforeSpace(q, "in") \/ BeforeSpace(q, "for")
    \/ Has(q, "during") \/ Has(q, "within")
    \/ \E ph \in followup_phrases : HasKeyword(q, ph)
    \/ Len(q) <= 5

topic_groups ==
    [weave |-> {"weave", "weev", "plain", "satin", "linen", "denim", "crepe", "twill",
                "spandex"},
     composition |-> {"composition", "komposition", "kumposison", "composision", "cotton",
                      "polyester"},
     quality |-> {"quality", "kolity", "qualety", "premium", "standard", "economy"},
     agent |-> {"agent", "agnet", "priya", "sowmiya", "mukilan", "karthik", "boobalan",
                "boopalan"},
     customer |-> {"customer", "cusomer", "alice", "smith", "ravi", "qilyze", "jhon"},
     sales |-> {"sales", "revenue", "quantity", "rate", "growth", "trend", "sold", "most"},
     status |-> {"status", "confirmed", "pending", "cancelled"}]

get_question_topics(q) ==
    {topic \in DOMAIN topic_groups : \E keyword \in topic_groups[topic] : Has(q, keyword)}

NoQuestion == <<>>

are_questions_related(current_q, last_q) ==
    /\ last_q # NoQuestion /\ current_q # NoQuestion
    /\ get_question_topics(current_q) \cap get_question_topics(last_q) # {}

UserMessage(text) == [role |-> "user", text |-> text]
ModelMessage == [role |-> "model", text |-> <<>>]

Max(S) == CHOOSE x \in S : \A y \in S : x >= y

\* the user messages before the current one, which is the last of chat_history
EarlierUserMessages(chat_history) ==
    {i \in 1..(Len(chat_history) - 1) : chat_history[i].role = "user"}

\* the oldest user question instead of the most recent one
get_first_user_question(chat_history) ==
    IF EarlierUserMessages(chat_history) = {} THEN NoQuestion
    ELSE chat_history[Min(EarlierUserMessages(chat_history))].text

get_last_user_question(chat_history) ==
    IF EarlierUserMessages(chat_history) = {} THEN NoQuestion
    ELSE chat_history[Max(EarlierUserMessages(chat_history))].text

\* only in (\w+) | in (\w+) month | for (\w+) | during (\w+)
is_temporal_filter(q) ==
    \/ \E i \in 1..(Len(q) - 2) : EndsWith(q[i], "only") /\ q[i + 1] = W("in")
    \/ \E i \in 1..(Len(q) - 2) :
          EndsWith(q[i], "in") /\ IsWordChars(q[i + 1]) /\ StartsWith(q[i + 2], "month")
    \/ \E i \in 1..(Len(q) - 1) : EndsWith(q[i], "for") \/ EndsWith(q[i], "during")

Affirmatives ==
    {<<W("yes")>>, <<W("yeah")>>, <<W("yep")>>, <<W("sure")>>, <<W("please"), W("do")>>,
     <<W("go"), W("ahead")>>, <<W("correct")>>}

limited_history(chat_history) ==
    IF Len(chat_history) >= 2
    THEN SubSeq(chat_history, Len(chat_history) - 1, Len(chat_history))
    ELSE chat_history

(***************************************************************************)
(* generate_response.  The result records the question that reaches the    *)
(* classification (effective, <<>> when the call answers before it), the   *)
(* previous question looked up, whether and how the two were combined, and *)
(* the messages handed to the language model as conversation context.      *)
(***************************************************************************)
Reply(outcome, effective, last, merge, retry, context) ==
    [NoTurn EXCEPT !.last = last, !.effective = effective, !.outcome = outcome,
                   !.merge = merge, !.retry = retry, !.context = context]

\* a call of the language model returns its text or raises
Generated(llm_ok, outcome) == IF llm_ok THEN outcome ELSE "error"

\* prediction questions are answered from the trends of the fetched records,
\* the others by the language model, which is handed the records as CSV
Classify(user_question, last, merge, retry, chat_history, api, llm_ok) ==
    IF is_prediction_question(user_question)
    THEN LET target_date == extract_prediction_date(user_question)
             prediction_result ==
                 predict_future_sales(target_date, fetch_sales_data_from_api(api))
         IN  [Reply(IF prediction_result.error # "none" THEN "prediction_error"
                    ELSE "prediction",
                    user_question, last, merge, retry, chat_history)
                 EXCEPT !.prediction = prediction_result]
    ELSE Reply(Generated(llm_ok, "answered"), user_question, last, merge, retry,
               chat_history)

\* the test without the comparison of the topics
MergeAllowedAnyTopic(user_question, last_question) == last_question # NoQuestion

\* the test before the two questions are combined
MergeAllowed(user_question, last_question) ==
    last_question # NoQuestion /\ are_questions_related(user_question, last_question)

Combine(user_question, last_question, retry, chat_history, api, llm_ok) ==
    IF MergeAllowed(user_question, last_question)
    THEN IF ~is_sales_related_question(last_question \o user_question, api)
         THEN Reply(Generated(llm_ok, "out_of_domain"), <<>>, last_question, "none", retry,
                    chat_history)
         ELSE Classify(last_question \o user_question, last_question,
                       IF is_temporal_filter(user_question) THEN "temporal" ELSE "followup",
                       retry, limited_history(chat_history), api, llm_ok)
    ELSE Classify(user_question, last_question, "none", retry, chat_history, api, llm_ok)

\* the reply without the memory the call leaves
Respond(user_question, chat_history, followup_flag, api, llm_ok) ==
    IF IsPropagated(fetch_sales_data_from_api(api))
    THEN Reply("error", <<>>, NoQuestion, "none", FALSE, chat_history)
    ELSE IF fetch_sales_data_from_api(api) = <<>>
    THEN Reply("data_unavailable", <<>>, NoQuestion, "none", FALSE, chat_history)
    ELSE IF is_business_strategy_question(user_question) /\ extract_festival_name(user_question)
    THEN LET strategy == generate_business_strategy_response(user_question, session_memory)
         IN  [Reply("strategy", <<>>, NoQuestion, "none", FALSE, chat_history)
                 EXCEPT !.attempt_count = strategy.attempt_count,
                        !.strategy_angle = strategy.strategy_angle]
    ELSE IF /\ is_festival_question(user_question)
            /\ ~is_business_strategy_question(user_question)
            /\ extract_festival_name(user_question)
    THEN Reply("festival", <<>>, NoQuestion, "none", FALSE, chat_history)
    ELSE IF followup_flag \/ (chat_history # <<>> /\ is_followup_question(user_question))
    THEN LET last_question == get_last_user_question(chat_history)
             corrected_question == correct_misspellings(last_question)
         IN  IF user_question \in Affirmatives /\ last_question # NoQuestion
             THEN IF corrected_question # last_question
                  THEN Combine(corrected_question, last_question, TRUE,
                               limited_history(chat_history), api, llm_ok)
                  ELSE Reply(Generated(llm_ok, "clarify"), <<>>, last_question, "none",
                             FALSE, chat_history)
             ELSE Combine(user_question, last_question, FALSE, chat_history, api, llm_ok)
    ELSE Classify(user_question, NoQuestion, "none", FALSE, chat_history, api, llm_ok)

\* the reply, the reply of the live API it was made from, and the
\* session_memory the call leaves
generate_response(user_question, chat_history, followup_flag, api, llm_ok) ==
    LET reply == Respond(user_question, chat_history, followup_flag, api, llm_ok)
    IN  [reply |-> [reply EXCEPT !.api = api],
         memory |-> IF reply.outcome = "strategy"
                    THEN generate_business_strategy_response(user_question,
                                                             session_memory).memory
                    ELSE session_memory]

(***************************************************************************)
(* main: one iteration of the console loop.  The input is stripped and     *)
(* lower-cased, appended to chat_history, answered by generate_response    *)
(* (followup_flag is left at its default), and the answer is appended.     *)
(* An empty input changes nothing.                                         *)
(***************************************************************************)
UserInputs(h) == SelectSeq(h, LAMBDA msg : msg.role = "user")

ConsoleTurn(Inputs, Responses) ==
    /\ Len(UserInputs(history)) < MaxTurns
    /\ \E user_input \in Inputs, api \in Responses, llm_ok \in BOOLEAN :
          LET chat_history == Append(history, UserMessage(user_input))
              response == generate_response(user_input, chat_history, FALSE, api, llm_ok)
          IN  /\ turn' = [response.reply EXCEPT !.input = user_input]
              /\ session_memory' = response.memory
              /\ history' = Append(chat_history, ModelMessage)
    /\ UNCHANGED <<cache, caller, qa, calls,
                   csv, data, loaded, question, answer, sessions, requests, spelling>>

(***************************************************************************)
(* A caller of generate_response other than the console loop: it holds its *)
(* own conversation and passes it with each question, as main does.  The   *)
(* callers of one process share session_memory; generate_response is told  *)
(* nothing about the caller, and the session key is always made with the   *)
(* default user_id.  served lists what each caller was answered.           *)
(***************************************************************************)
Asked == SumSeq([s \in Sessions |-> Len(sessions[s].served)])

Ask(Inputs, Responses) ==
    /\ Asked < MaxAsks
    /\ \E s \in Sessions, user_input \in Inputs, api \in Responses, llm_ok \in BOOLEAN :
          LET chat_history == Append(sessions[s].history, UserMessage(user_input))
              response == generate_response(user_input, chat_history, FALSE, api, llm_ok)
          IN  /\ sessions' =
                     [sessions EXCEPT
                         ![s] = [history |-> Append(chat_history, ModelMessage),
                                 served |-> Append(@.served,
                                                   [response.reply EXCEPT
                                                       !.input = user_input])]]
              /\ session_memory' = response.memory
    /\ UNCHANGED <<cache, caller, qa, calls,
                   csv, data, loaded, question, answer, history, turn, requests, spelling>>

(***************************************************************************)
(* SpecSessions: two callers ask strategy questions in one process.        *)
(***************************************************************************)
SessionInputs ==
    {Words(<<"sales", "strategy", "for", "diwali">>),
     Words(<<"sales", "strategy", "for", "diwali?">>),
     Words(<<"most", "sold", "weave">>)}

SessionResponses ==
    {Failed("timeout"), Delivered(<<LiveRecord(IsoDate(2025, 5), Qty(1), 2, "Mukilan")>>)}

NextSessions == Ask(SessionInputs, SessionResponses)

SpecSessions == Init /\ [][NextSessions]_vars

(***************************************************************************)
(* generate_business_strategy_response run by two threads of one process.  *)
(* Nothing in the module takes a lock, so the interpreter may switch       *)
(* threads between any two bytecodes; a step below is one access to        *)
(* session_memory or to a dict stored in it:                               *)
(*   check    session_key not in session_memory                            *)
(*   init     session_memory[session_key] = {"count": 0, ...}              *)
(*   ref      session_memory[session_key]          (of the += statement)   *)
(*   read     ...["count"]                         (read by +=)            *)
(*   store    ...["count"] = count + 1             (written by +=)         *)
(*   lookup   session_memory[session_key]          (of attempt_count = )   *)
(*   attempt  ...["count"]                                                 *)
(***************************************************************************)
Begin(t, Questions) ==
    /\ requests[t].pc = "idle"
    /\ \E q \in Questions :
          /\ is_business_strategy_question(q) /\ extract_festival_name(q)
          /\ requests' = [requests EXCEPT ![t] = [NoRequest EXCEPT
                              !.pc = "check",
                              !.session_key = generate_session_key(q, "admin")]]
    /\ UNCHANGED <<cache, caller, qa, calls,
                   csv, data, loaded, question, answer, history, turn, session_memory,
                   sessions, spelling>>

Check(t) ==
    /\ requests[t].pc = "check"
    /\ requests' = [requests EXCEPT ![t].pc =
                        IF requests[t].session_key \notin DOMAIN session_memory.entries
                        THEN "init" ELSE "ref"]
    /\ UNCHANGED <<cache, caller, qa, calls,
                   csv, data, loaded, question, answer, history, turn, session_memory,
                   sessions, spelling>>

Initialise(t) ==
    /\ requests[t].pc = "init"
    /\ session_memory' =
           [entries |-> (requests[t].session_key :> (Len(session_memory.dicts) + 1))
                            @@ session_memory.entries,
            dicts |-> Append(session_memory.dicts, [count |-> 0])]
    /\ requests' = [requests EXCEPT ![t].pc = "ref"]
    /\ UNCHANGED <<cache, caller, qa, calls,
                   csv, data, loaded, question, answer, history, turn, sessions, spelling>>

LoadEntry(t) ==
    /\ requests[t].pc \in {"ref", "lookup"}
    /\ requests' = [requests EXCEPT
                        ![t].ref = session_memory.entries[requests[t].session_key],
                        ![t].pc = IF requests[t].pc = "ref" THEN "read" ELSE "attempt"]
    /\ UNCHANGED <<cache, caller, qa, calls,
                   csv, data, loaded, question, answer, history, turn, session_memory,
                   sessions, spelling>>

ReadCount(t) ==
    /\ requests[t].pc = "read"
    /\ requests' = [requests EXCEPT
                        ![t].count = session_memory.dicts[requests[t].ref].count,
                        ![t].pc = "store"]
    /\ UNCHANGED <<cache, caller, qa, calls,
                   csv, data, loaded, question, answer, history, turn, session_memory,
                   sessions, spelling>>

StoreCount(t) ==
    /\ requests[t].pc = "store"
    /\ session_memory' =
           [session_memory EXCEPT !.dicts[requests[t].ref].count = requests[t].count + 1]
    /\ requests' = [requests EXCEPT ![t].pc = "lookup"]
    /\ UNCHANGED <<cache, caller, qa, calls,
                   csv, data, loaded, question, answer, history, turn, sessions, spelling>>

ReadAttempt(t) ==
    /\ requests[t].pc = "attempt"
    /\ requests' = [requests EXCEPT
                        ![t].attempt_count = session_memory.dicts[requests[t].ref].count,
                        ![t].pc = "done"]
    /\ UNCHANGED <<cache, caller, qa, calls,
                   csv, data, loaded, question, answer, history, turn, session_memory,
                   sessions, spelling>>

(***************************************************************************)
(* SpecThreads: each thread serves one strategy request.                   *)
(***************************************************************************)
ThreadQuestions ==
    {Words(<<"sales", "strategy", "for", "diwali">>),
     Words(<<"sales", "strategy", "for", "diwali?">>),
     Words(<<"strategy", "for", "holi">>)}

NextThreads ==
    \E t \in Threads :
        \/ Begin(t, ThreadQuestions)
        \/ Check(t)
        \/ Initialise(t)
        \/ LoadEntry(t)
        \/ ReadCount(t)
        \/ StoreCount(t)
        \/ ReadAttempt(t)

SpecThreads == Init /\ [][NextThreads]_vars

(***************************************************************************)
(* SpecChat: console sessions.                                             *)
(***************************************************************************)
ChatInputs ==
    {Words(<<"most", "sold", "weev">>),
     Words(<<"most", "sold", "weave">>),
     Words(<<"sales", "in", "june">>),
     Words(<<"yes">>),
     Words(<<"which", "agent", "has", "highest", "quantity", "overall">>),
     Words(<<"hello", "there">>),
     Words(<<"sales", "strategy", "for", "diwali">>),
     Words(<<"boopalan">>),
     Words(<<"predict", "sales">>)}

\* the live API times out or delivers one order
ChatResponses ==
    {Failed("timeout"),
     Delivered(<<LiveRecord(IsoDate(2025, 5), Qty(1), 2, "Mukilan")>>),
     Delivered(<<LiveRecord(IsoDate(2025, 5), Qty(1), 2, "Boopalan")>>)}

NextChat == ConsoleTurn(ChatInputs, ChatResponses)

SpecChat == Init /\ [][NextChat]_vars

(***************************************************************************)
(* SpecFetch: console sessions in which the live API fails in every way,   *)
(* delivers no record, or delivers one order.                              *)
(***************************************************************************)
FetchInputs ==
    {Words(<<"sales", "strategy", "for", "diwali">>),
     Words(<<"predict", "sales">>),
     Words(<<"most", "sold", "weave">>)}

FetchResponses ==
    {Failed(kind) : kind \in FailureKinds}
        \cup {Delivered(<<>>),
              Delivered(<<LiveRecord(IsoDate(2025, 5), Qty(1), 2, "Mukilan")>>)}

NextFetch == ConsoleTurn(FetchInputs, FetchResponses)

SpecFetch == Init /\ [][NextFetch]_vars

(***************************************************************************)
(* SpecPredict: console sessions with prediction questions.  The live API  *)
(* delivers the orders of one or two months, among them orders whose date  *)
(* or quantity cannot be parsed and an order of quantity 0.                *)
(***************************************************************************)
PredictInputs ==
    {Words(<<"predict", "sales">>),
     Words(<<"forecast", "sales", "for", "december">>),
     Words(<<"sales", "in">>) \o <<YR(2027)>>}

PredictResponses ==
    {Delivered(<<LiveRecord(IsoDate(2025, 12), Qty(2), 2, "Devaraj")>>),
     Delivered(<<LiveRecord(IsoDate(2025, 11), Qty(1), 1, "Devaraj")>>),
     Delivered(<<LiveRecord(IsoDate(2025, 11), Qty(1), 1, "Devaraj"),
                 LiveRecord(IsoDate(2025, 12), Qty(2), 2, "Devaraj")>>),
     Delivered(<<LiveRecord(IsoDate(2026, 7), Qty(1), 2, "Mukilan"),
                 LiveRecord(IsoDate(2026, 8), Qty(0), 2, "Mukilan")>>),
     Delivered(<<LiveRecord(IsoDate(2026, 8), Qty(0), 2, "Mukilan"),
                 LiveRecord(IsoDate(2026, 7), Qty(1), 2, "Mukilan")>>),
     Delivered(<<LiveRecord(IsoDate(2026, 7), Qty(2), 2, "Mukilan"),
                 LiveRecord(IsoDate(2026, 8), Qty(1), 2, "Mukilan")>>),
     Delivered(<<LiveRecord(IsoDate(2026, 8), Qty(0), 2, "Mukilan")>>),
     Delivered(<<LiveRecord(OtherDate, Qty(1), 2, "Mukilan")>>),
     Delivered(<<LiveRecord(EmptyDate, Qty(1), 2, "Devaraj")>>),
     Delivered(<<LiveRecord(IsoDate(2025, 12), Unparsed, 2, "Mukilan")>>),
     Delivered(<<LiveRecord(OtherDate, Qty(1), 2, "Mukilan"),
                 LiveRecord(IsoDate(2025, 12), Unparsed, 2, "Mukilan")>>),
     Delivered(<<LiveRecord(OtherDate, Qty(1), 2, "Mukilan"),
                 LiveRecord(IsoDate(2025, 12), Qty(2), 2, "Devaraj")>>)}

NextPredict == ConsoleTurn(PredictInputs, PredictResponses)

SpecPredict == Init /\ [][NextPredict]_vars

(***************************************************************************)
(* NumericalAnalyzer.comprehensive_analysis.  pd.read_csv gives the        *)
(* quantity column the dtype object as soon as one of its values is not a  *)
(* number; the mean of such a column raises TypeError, and the except      *)
(* clause of the function returns the text "Analysis failed: ...".         *)
(***************************************************************************)
comprehensive_analysis(df) ==
    IF \E i \in DOMAIN df : df[i].quantity.form # "plain"
    THEN [Ans0 EXCEPT !.kind = "analysis_failed"]
    ELSE [Ans0 EXCEPT !.kind = "comprehensive",
                      !.total_all = Len(df),
                      !.total_quantity = SumSeq([i \in DOMAIN df |-> df[i].quantity.n]),
                      !.total_revenue =
                          SumSeq([i \in DOMAIN df |-> df[i].rate * df[i].quantity.n]),
                      !.rate_sum = SumSeq([i \in DOMAIN df |-> df[i].rate])]

ComprehensiveAnalysis(Questions) ==
    /\ loaded
    /\ \E q \in Questions :
          /\ question' = q
          /\ answer' = comprehensive_analysis(data)
    /\ UNCHANGED <<cache, caller, qa, calls,
                   csv, data, loaded, history, turn, session_memory, sessions, requests,
                   spelling>>

(***************************************************************************)
(* SpecAnalysis: totals over stored orders of which some carry a quantity  *)
(* that is not a number.                                                   *)
(***************************************************************************)
AnalysisRows ==
    {Row("o1", Date(2025, 5, 28), "plain", Qty(1), 2, "Confirmed", "Mukilan", "Alice"),
     Row("o2", Date(2025, 6, 3), "satin", Qty(2), 1, "Confirmed", "Devaraj", "Ravi"),
     Row("o3", Date(2025, 5, 28), "plain", Unparsed, 2, "Confirmed", "Devaraj", "Alice"),
     Row("o4", Date(2025, 6, 3), "satin", Unparsed, 3, "Pending", "Mukilan", "Ravi")}

AnalysisQuestions ==
    {Words(<<"total", "quantity">>), Words(<<"total", "revenue">>)}

NextAnalysis ==
    \/ UpdateCsv(AnalysisRows)
    \/ Load
    \/ CallMathApi(AnalysisQuestions)
    \/ ComprehensiveAnalysis(AnalysisQuestions)

SpecAnalysis == Init /\ [][NextAnalysis]_vars

(***************************************************************************)
(* testbot/new.py, DatasetQASystem.  The object holds the DataFrame df,    *)
(* the attribute index that refers to a VectorIndex object, and a lock.    *)
(* A DataFrame and the documents of an index are written as the CSV        *)
(* content they were read from.  answer takes the lock for                 *)
(* reload_if_changed only; it reads self.df and searches self.index after  *)
(* it has released the lock.                                               *)
(***************************************************************************)
\* __init__: self.index = VectorIndex(), then _build_index reads the CSV
Construct ==
    /\ qa.index = 0
    /\ csv # <<>>
    /\ qa' = [qa EXCEPT !.df = csv, !.indexes = <<[docs |-> csv]>>, !.index = 1]
    /\ UNCHANGED <<csv, data, loaded, question, answer, history, turn, session_memory,
                   sessions, requests, spelling, cache, caller, calls>>

QAUnchanged ==
    UNCHANGED <<csv, data, loaded, question, answer, history, turn, session_memory,
                sessions, requests, spelling, cache, caller>>

\* answer: with self.lock
Acquire(t) ==
    /\ calls[t].pc = "idle"
    /\ qa.index # 0
    /\ qa.lock = "free"
    /\ qa' = [qa EXCEPT !.lock = t]
    /\ calls' = [calls EXCEPT ![t] = [NoCall EXCEPT !.pc = "read_csv"]]
    /\ QAUnchanged

\* reload_if_changed: new_df = pd.read_csv(self.csv_path) and the comparison
\* with self.df; nothing to do releases the lock
ReadCsv(t) ==
    /\ calls[t].pc = "read_csv"
    /\ IF csv # qa.df
       THEN /\ calls' = [calls EXCEPT ![t].new_df = csv, ![t].pc = "csv_to_docs"]
            /\ qa' = qa
       ELSE /\ calls' = [calls EXCEPT ![t].new_df = csv, ![t].pc = "aggregate"]
            /\ qa' = [qa EXCEPT !.lock = "free"]
    /\ QAUnchanged

\* docs, _ = csv_to_docs(self.csv_path): the file is read a second time
CsvToDocs(t) ==
    /\ calls[t].pc = "csv_to_docs"
    /\ calls' = [calls EXCEPT ![t].docs = csv, ![t].pc = "new_index"]
    /\ UNCHANGED qa
    /\ QAUnchanged

\* self.index = VectorIndex(): the attribute refers to a new, empty object
NewIndex(t) ==
    /\ calls[t].pc = "new_index"
    /\ qa' = [qa EXCEPT !.indexes = Append(@, [docs |-> <<>>]),
                        !.index = Len(qa.indexes) + 1]
    /\ calls' = [calls EXCEPT ![t].pc = "add_documents"]
    /\ QAUnchanged

\* self.index.add_documents(docs)
AddDocuments(t) ==
    /\ calls[t].pc = "add_documents"
    /\ qa' = [qa EXCEPT !.indexes[qa.index].docs = @ \o calls[t].docs]
    /\ calls' = [calls EXCEPT ![t].pc = "set_df"]
    /\ QAUnchanged

\* self.df = new_df, and the end of the with block
SetDf(t) ==
    /\ calls[t].pc = "set_df"
    /\ qa' = [qa EXCEPT !.df = calls[t].new_df, !.lock = "free"]
    /\ calls' = [calls EXCEPT ![t].pc = "aggregate"]
    /\ QAUnchanged

\* try_handle_aggregation(corrected, self.df): an aggregation question is
\* answered from the DataFrame, any other question goes on to the index
Aggregate(t) ==
    /\ calls[t].pc = "aggregate"
    /\ \E handled \in BOOLEAN :
          calls' = [calls EXCEPT ![t].df = qa.df,
                                 ![t].pc = IF handled THEN "answered" ELSE "search"]
    /\ UNCHANGED qa
    /\ QAUnchanged

\* a reload that has replaced self.index and not yet filled the new object
Rebuilding ==
    \E u \in Threads : qa.lock = u /\ calls[u].pc = "add_documents"

\* self.index.search(corrected): the object the attribute refers to now
Search(t) ==
    /\ calls[t].pc = "search"
    /\ calls' = [calls EXCEPT ![t].searched = qa.index,
                              ![t].found = qa.indexes[qa.index].docs,
                              ![t].rebuilding = Rebuilding,
                              ![t].pc = "searched"]
    /\ UNCHANGED qa
    /\ QAUnchanged

\* return of answer
Return(t) ==
    /\ calls[t].pc \in {"answered", "searched"}
    /\ calls' = [calls EXCEPT ![t] = NoCall]
    /\ UNCHANGED qa
    /\ QAUnchanged

(***************************************************************************)
(* SpecSnapshot: two threads call answer while update_csv rewrites the     *)
(* CSV.                                                                    *)
(***************************************************************************)
SnapshotRows ==
    {Row("o1", Date(2025, 5, 28), "plain", Qty(1), 2, "Confirmed", "Mukilan", "Alice"),
     Row("o2", Date(2025, 6, 3), "satin", Qty(2), 1, "Confirmed", "Devaraj", "Ravi")}

NextSnapshot ==
    \/ UpdateCsv(SnapshotRows)
    \/ Construct
    \/ \E t \in Threads :
          \/ Acquire(t) \/ ReadCsv(t) \/ CsvToDocs(t) \/ NewIndex(t) \/ AddDocuments(t)
          \/ SetDf(t) \/ Aggregate(t) \/ Search(t) \/ Return(t)

SpecSnapshot == Init /\ [][NextSnapshot]_vars

(***************************************************************************)
(* SpecRoute: the questions call_math_api routes by keyword.               *)
(***************************************************************************)
RouteQuestions ==
    {Words(<<"best", "selling", "weave">>),
     Words(<<"best", "selling", "quality", "in", "may">>),
     Words(<<"highest", "weave">>),
     Words(<<"highest", "composition", "in", "june">>),
     Words(<<"most", "sold", "weave">>),
     Words(<<"best", "agent">>),
     Words(<<"highest", "customer">>)}

NextRoute == UpdateCsv(RankRows) \/ Load \/ CallMathApi(RouteQuestions)

SpecRoute == Init /\ [][NextRoute]_vars

(***************************************************************************)
(* SpecRepeat: questions asked again, by the same and by another session,  *)
(* of one process whose dataset is loaded once.                            *)
(***************************************************************************)
RepeatRows ==
    {Row("o1", Date(2025, 5, 28), "plain", Qty(1), 2, "Confirmed", "Mukilan", "Alice"),
     Row("o2", Date(2025, 6, 3), "satin", Qty(2), 1, "Declined", "Devaraj", "Ravi"),
     Row("o3", Date(2025, 6, 3), "satin", Qty(2), 3, "Pending", "Devaraj", "Ravi")}

RepeatQuestions ==
    {Words(<<"most", "sold", "weave">>),
     Words(<<"most", "sold", "quality">>),
     Words(<<"list", "the", "customers">>),
     Words(<<"which", "customer", "placed", "the", "most", "orders">>),
     Words(<<"total", "revenue">>)}

RepeatMathQuestions ==
    {Words(<<"total", "quantity">>), Words(<<"how", "many", "sales">>)}

NextRepeat ==
    \/ UpdateCsv(RepeatRows)
    \/ Load
    \/ EnhancedChatbotAsk(RepeatQuestions)
    \/ CallMathApi(RepeatMathQuestions)

SpecRepeat == Init /\ [][NextRepeat]_vars

(***************************************************************************)
(* SpecCase: rankings over stored orders whose weave, agent and customer   *)
(* are written in more than one letter case.                               *)
(***************************************************************************)
CaseRows ==
    {Row("o1", Date(2025, 5, 28), "plain", Qty(1), 2, "Confirmed", "Mukilan", "Alice"),
     Row("o2", Date(2025, 5, 28), "Plain", Qty(2), 2, "Confirmed", "mukilan", "alice"),
     Row("o3", Date(2025, 6, 3), "satin", Qty(2), 1, "Confirmed", "Devaraj", "Ravi"),
     Row("o4", Date(2025, 6, 3), "Satin", Qty(1), 3, "Processed", "Devaraj", "Ravi")}

CaseQuestions ==
    {Words(<<"most", "sold", "weave">>),
     Words(<<"least", "sold", "weave">>),
     Words(<<"best", "agent">>),
     Words(<<"top", "customer">>)}

NextCase == UpdateCsv(CaseRows) \/ Load \/ CallMathApi(CaseQuestions)

SpecCase == Init /\ [][NextCase]_vars

(***************************************************************************)
(* SpecHistory: prediction questions while the live API delivers declined  *)
(* orders, orders dated with time and zone, and orders whose quantity is   *)
(* not a number.                                                           *)
(***************************************************************************)
HistoryResponses ==
    {Delivered(<<LiveRecord(IsoDate(2025, 12), Qty(2), 2, "Devaraj")>>),
     Delivered(<<LiveRecord(IsoDate(2025, 11), Qty(1), 1, "Devaraj"),
                 LiveRecord(IsoDate(2025, 12), Qty(2), 2, "Devaraj")>>),
     Delivered(<<LiveRecord(IsoDate(2025, 12), Qty(2), 2, "Devaraj"),
                 DeclinedRecord(IsoDate(2025, 12), Qty(1), 2, "Mukilan")>>),
     Delivered(<<DeclinedRecord(IsoDate(2025, 11), Qty(1), 2, "Mukilan")>>),
     Delivered(<<LiveRecord(IsoDate(2025, 12), Qty(2), 2, "Devaraj"),
                 LiveRecord(IsoDateTime(2025, 12), Qty(1), 2, "Mukilan")>>),
     Delivered(<<LiveRecord(IsoDateTime(2025, 11), Qty(1), 2, "Mukilan")>>),
     Delivered(<<LiveRecord(IsoDate(2025, 12), Qty(2), 2, "Devaraj"),
                 LiveRecord(IsoDate(2025, 12), Unparsed, 2, "Mukilan")>>)}

NextHistory == ConsoleTurn(PredictInputs, HistoryResponses)

SpecHistory == Init /\ [][NextHistory]_vars

(***************************************************************************)
(* What the conversation claims are stated with: the texts the user typed, *)
(* in order, read from the history.                                        *)
(***************************************************************************)
UserTexts == [i \in DOMAIN UserInputs(history) |-> UserInputs(history)[i].text]

CurrentInput == IF UserTexts = <<>> THEN NoQuestion ELSE UserTexts[Len(UserTexts)]

PreviousInput == IF Len(UserTexts) < 2 THEN NoQuestion ELSE UserTexts[Len(UserTexts) - 1]

IsCorrectionRetry ==
    /\ CurrentInput \in Affirmatives
    /\ PreviousInput # NoQuestion
    /\ correct_misspellings(PreviousInput) # PreviousInput

BuiltFrom(cur, prev) ==
    LET parts == {cur, prev, correct_misspellings(cur), correct_misspellings(prev)}
                     \ {NoQuestion}
    IN  parts \cup {a \o b : a, b \in parts}

C10_AtMostTwoTurns ==
    turn.effective # <<>> => turn.effective \in BuiltFrom(CurrentInput, PreviousInput)

\* the third user input was combined with the second although the first,
\* a different question, shares a topic with it as well
C10_Witness ==
    /\ Len(UserTexts) >= 3
    /\ turn.merge # "none"
    /\ LET first == UserTexts[Len(UserTexts) - 2]
       IN  /\ first \notin {CurrentInput, PreviousInput}
           /\ are_questions_related(CurrentInput, first)
           /\ first \o CurrentInput \notin BuiltFrom(CurrentInput, PreviousInput)

(***************************************************************************)
(* C11: when the input is a bare affirmative and a previous user question  *)
(* exists, a clarification is returned if the misspelling table changes    *)
(* nothing in the previous question, and otherwise the question answered   *)
(* is exactly the corrected previous question.  Turns whose data fetch or  *)
(* language-model call failed are left aside.                              *)
(***************************************************************************)
C11_AffirmativeRetriesCorrected ==
    (/\ CurrentInput \in Affirmatives
     /\ PreviousInput # NoQuestion
     /\ turn.outcome \notin {"none", "data_unavailable", "error"}) =>
        IF correct_misspellings(PreviousInput) = PreviousInput
        THEN turn.outcome = "clarify"
        ELSE turn.effective # <<>> =>
                 turn.effective = correct_misspellings(PreviousInput)

(***************************************************************************)
(* C12: within one session, the k-th time the same normalized strategy     *)
(* question is asked the answer uses attempt count k and angle number      *)
(* (k - 1) mod 6 of the angle list, whatever the other sessions asked.     *)
(***************************************************************************)
\* the strategy answers among the first i answers to session s whose
\* question has the session key of the i-th
SameQuestionBefore(s, i) ==
    {j \in 1..i :
        /\ sessions[s].served[j].outcome = "strategy"
        /\ Normalized_question(sessions[s].served[j].input)
               = Normalized_question(sessions[s].served[i].input)}

C12_AngleCyclesPerSession ==
    \A s \in Sessions : \A i \in DOMAIN sessions[s].served :
        sessions[s].served[i].outcome = "strategy" =>
            LET k == Cardinality(SameQuestionBefore(s, i))
            IN  /\ sessions[s].served[i].attempt_count = k
                /\ sessions[s].served[i].strategy_angle = angles[((k - 1) % 6) + 1]

(***************************************************************************)
(* C13: when two requests with the same session key run                    *)
(* generate_business_strategy_response concurrently, then once both have   *)
(* finished the repeat counter has risen by exactly two and the requests   *)
(* have observed two different attempt counts.                             *)
(***************************************************************************)
C13_NoLostUpdate ==
    (/\ requests["t1"].pc = "done" /\ requests["t2"].pc = "done"
     /\ requests["t1"].session_key = requests["t2"].session_key) =>
        /\ session_memory.dicts[session_memory.entries[requests["t1"].session_key]].count = 2
        /\ requests["t1"].attempt_count # requests["t2"].attempt_count

(***************************************************************************)
(* C14: a question for which is_sales_related_question is false is never   *)
(* answered from the data (by the prediction or by the language model      *)
(* holding the records); whenever it is answered at all, it receives the   *)
(* scope explanation.  Turns whose data fetch or language-model call       *)
(* failed are left aside.                                                  *)
(***************************************************************************)
C14_OutOfDomainNeverAnswered ==
    (/\ turn.outcome \notin {"none", "data_unavailable", "error"}
     /\ ~is_sales_related_question(CurrentInput, turn.api)) =>
        turn.outcome = "out_of_domain"

(***************************************************************************)
(* C17: whenever the data fetch of a turn fails (timeout, connection       *)
(* error, 4xx/5xx status, body that is not JSON, status field other than   *)
(* 200, payload without formData or with a null formData),                 *)
(* fetch_sales_data_from_api returns the empty list, and the turn is the   *)
(* data-unavailable reply: no question was classified, no prediction was   *)
(* made, no strategy was drawn and session_memory is what it was.          *)
(***************************************************************************)
C17_FailedFetchShortCircuits ==
    [][turn'.api.kind \in FailureKinds =>
          /\ fetch_sales_data_from_api(turn'.api) = <<>>
          /\ turn'.outcome = "data_unavailable"
          /\ turn'.effective = <<>> /\ turn'.merge = "none" /\ ~turn'.retry
          /\ turn'.prediction = NoPrediction
          /\ turn'.attempt_count = 0 /\ turn'.strategy_angle = "none"
          /\ session_memory' = session_memory]_vars

\* a strategy question that was served before is asked again while the
\* payload of the live API has a null formData
C17_Witness ==
    /\ turn.api = Failed("null_formData")
    /\ is_business_strategy_question(turn.input) /\ extract_festival_name(turn.input)
    /\ generate_session_key(turn.input, "admin") \in DOMAIN session_memory.entries
    /\ turn.outcome = "data_unavailable"

(***************************************************************************)
(* C18: no exception raised while an aggregate is computed leaves          *)
(* enhanced_chatbot_ask: whatever the loaded orders (all of them declined  *)
(* included) and the question, the caller receives an answer.              *)
(***************************************************************************)
C18_NoExceptionPropagates == answer.kind \notin Exceptions

(***************************************************************************)
(* C19: whenever none of the fetched rows can be aggregated into a month   *)
(* (no row has both a date of the form YYYY-MM-DD and a numeric quantity), *)
(* the result of predict_future_sales carries an error and no predicted    *)
(* figure, and generate_response answers with the prediction error.        *)
(***************************************************************************)
ZeroHistoricalMonths(sales_data) ==
    \A i \in DOMAIN sales_data :
        sales_data[i].date.form # "iso" \/ sales_data[i].quantity.form # "plain"

C19_NoHistoryIsAnError ==
    (/\ turn.outcome \in {"prediction", "prediction_error"}
     /\ ZeroHistoricalMonths(fetch_sales_data_from_api(turn.api))) =>
        /\ turn.prediction.error # "none"
        /\ ~turn.prediction.figures
        /\ turn.outcome = "prediction_error"
        /\ predict_future_sales(extract_prediction_date(turn.effective),
                                fetch_sales_data_from_api(turn.api)) = turn.prediction

\* a prediction was asked for while the live API delivered two orders, one
\* without a parseable date and one without a parseable quantity
C19_Witness ==
    /\ turn.outcome = "prediction_error"
    /\ Len(turn.api.formData) = 2
    /\ turn.api.formData[1].date.form = "other"
    /\ turn.api.formData[2].quantity.form = "garbage"
    /\ ZeroHistoricalMonths(fetch_sales_data_from_api(turn.api))

(***************************************************************************)
(* C20: whenever a prediction is made from a history of at least one       *)
(* month, its confidence is High when the target month is at most 6 months *)
(* after the latest historical month (the difference is signed), Medium    *)
(* when it is 7 to 12 months after it, and Low otherwise; a history of a   *)
(* single month gives predicted figures.                                   *)
(***************************************************************************)
HistoricalMonths(sales_data) ==
    {<<sales_data[i].date.y, sales_data[i].date.m>> :
        i \in {i \in DOMAIN sales_data : ~ZeroHistoricalMonths(<<sales_data[i]>>)}}

MonthsAhead(target, months) ==
    LET latest == CHOOSE k \in months :
                      \A o \in months : o[1] < k[1] \/ (o[1] = k[1] /\ o[2] <= k[2])
    IN  (target.y - latest[1]) * 12 + (target.m - latest[2])

C20_ConfidenceTiers ==
    LET months == HistoricalMonths(fetch_sales_data_from_api(turn.api))
        months_ahead == MonthsAhead(extract_prediction_date(turn.effective), months)
    IN  (turn.outcome \in {"prediction", "prediction_error"} /\ months # {}) =>
            /\ turn.prediction.confidence =
                   (IF months_ahead <= 6 THEN "High"
                    ELSE IF months_ahead <= 12 THEN "Medium" ELSE "Low")
            /\ Cardinality(months) = 1 => turn.prediction.figures

(***************************************************************************)
(* C21: the monthly aggregates a prediction is computed from (quantity,    *)
(* revenue and order count per month) are those of the fetched rows whose  *)
(* status is not Declined.                                                 *)
(***************************************************************************)
C21_DeclinedNotInHistory ==
    turn.outcome \in {"prediction", "prediction_error"} =>
        LET sales_data == fetch_sales_data_from_api(turn.api)
        IN  analyze_historical_trends(sales_data) =
                analyze_historical_trends(
                    SelectSeq(sales_data, LAMBDA r : r.status # "Declined"))

(***************************************************************************)
(* C22: the monthly grouping a prediction is computed from is the same     *)
(* whether an order carries its date as YYYY-MM-DD or as ISO-8601 with     *)
(* time and zone; no order is left out because of the format of its date.  *)
(***************************************************************************)
PlainDated(sales_data) ==
    [i \in DOMAIN sales_data |->
        IF sales_data[i].date.form = "datetime"
        THEN [sales_data[i] EXCEPT !.date.form = "iso"]
        ELSE sales_data[i]]

C22_DateFormatIrrelevant ==
    turn.outcome \in {"prediction", "prediction_error"} =>
        LET sales_data == fetch_sales_data_from_api(turn.api)
        IN  analyze_historical_trends(sales_data) =
                analyze_historical_trends(PlainDated(sales_data))

(***************************************************************************)
(* C23: an order whose quantity is not a number never aborts an            *)
(* aggregation: the totals of call_math_api and of comprehensive_analysis  *)
(* are computed, with that order counting zero and the other orders        *)
(* counting as they do without it.                                         *)
(***************************************************************************)
C23_MalformedQuantityCountsZero ==
    /\ answer.kind # "analysis_failed"
    /\ answer.kind = "comprehensive" =>
           /\ answer.total_quantity = SumOver(QtyAt(data), DOMAIN data)
           /\ answer.total_revenue = SumOver(RevAt(data), DOMAIN data)
    /\ answer.kind = "total_quantity" =>
           answer.total_quantity = SumOver(QtyAt(Scope), NotDeclined(Scope))
    /\ answer.kind = "total_revenue" =>
           answer.total_revenue = SumOver(RevAt(Scope), NotDeclined(Scope))

(***************************************************************************)
(* C24: in every ranking by weave, quality, composition, agent name or     *)
(* customer name, values that differ only in letter case form one group    *)
(* with the summed metric, and every key shown is title-cased.             *)
(***************************************************************************)
FoldedGroups(rows, by) ==
    LET key == [i \in DOMAIN rows |-> Title(Lower(KeyAt(rows, by)[i]))]
    IN  {LET I == {i \in NotDeclined(rows) : key[i] = k}
         IN  [key |-> k, qty |-> SumOver(QtyAt(rows), I),
              revenue |-> SumOver(RevAt(rows), I), orders |-> Cardinality(I)] :
            k \in {key[i] : i \in NotDeclined(rows)}}

C24_RankedBy ==
    IF answer.kind = "performance" THEN PerformanceColumn(question) ELSE Category(question)

C24_OneGroupPerKey ==
    answer.kind \in {"most_sold", "least_sold", "performance"} =>
        LET G == FoldedGroups(Scope, C24_RankedBy)
        IN  /\ Range(answer.ranking) \subseteq G
            /\ answer.winners \subseteq {g.key : g \in G}

C26_OneRowPerOrderId ==
    \A i, j \in DOMAIN csv : csv[i].id = csv[j].id => i = j

(***************************************************************************)
(* C27: every DatasetQASystem.answer call works on one snapshot: the       *)
(* DataFrame it aggregates on and the vector index it searches were built  *)
(* from the same CSV content, and the index it searches is not one that    *)
(* another call is still rebuilding.                                       *)
(***************************************************************************)
C27_OneSnapshotPerCall ==
    \A t \in Threads :
        calls[t].pc = "searched" =>
            /\ calls[t].found = calls[t].df
            /\ ~calls[t].rebuilding

(***************************************************************************)
(* C28: a question of call_math_api that contains "best selling", or       *)
(* "highest" together with weave, quality or composition, is answered by   *)
(* the most-sold handler, with a ranking by category, and not by the agent *)
(* or customer performance handler.                                        *)
(***************************************************************************)
C28_MostSoldKinds == {"most_sold", "specify", "analysis_failed"}

C28_CategoryQuestionRanksCategory ==
    (\/ HasPhrase(question, <<"best", "selling">>)
     \/ (Has(question, "highest") /\ Category(question) # "none")) =>
        answer.kind \in C28_MostSoldKinds

(***************************************************************************)
(* C30: correct_misspellings is idempotent, and in a text that holds none  *)
(* of the listed misspellings as a word it changes nothing but letter      *)
(* case: weave, quality and sales stay as they are.                        *)
(***************************************************************************)
C30_Misspellings ==
    {"kolity", "qualety", "qaulity", "qulaity", "kumposison", "komposition",
     "composision", "weav", "weev", "agnet", "cusomer", "custmer", "salse", "seles",
     "preium", "standrd", "econmy"}

C30_IdempotentAndPreserving ==
    spelling.corrector = "correct_misspellings" =>
        /\ correct_misspellings(spelling.result) = spelling.result
        /\ (\A i \in DOMAIN spelling.text : spelling.text[i].s \notin C30_Misspellings) =>
               \A i \in DOMAIN spelling.text :
                   spelling.result[i].s = Lower(spelling.text[i].s)

(***************************************************************************)
(* C29: the answer cache of enhanced_chatbot_ask is kept per session: an   *)
(* answer stored while a session is served is what the next lookup of that *)
(* session gets for the same normalized question, and the lookups of every *)
(* other session get what they got before.                                 *)
(***************************************************************************)
C29_CachePerSession ==
    [][cache' # cache =>
          /\ get_context(cache', question', caller'.session_id) = answer'
          /\ \A other \in SessionIds \ {caller'.session_id} :
                 get_context(cache', question', other) = get_context(cache, question', other)
      ]_vars

====
